---- MODULE Spec2Model ----
(***************************************************************************)
(* A model of the CES payroll back end: the column normalizers, the schema *)
(* validation, the employee upload / add / export services, the company    *)
(* salary-format services and the formula extractor and workbook generator.*)
(*                                                                         *)
(* Python strings are modelled as sequences of one-character strings, so   *)
(* that strip / lower / replace / "in" are computed as Python computes     *)
(* them.                                                                   *)
(***************************************************************************)
EXTENDS Integers, Sequences, FiniteSets, TLC

VARIABLES
    nArgs,      \* a function called on its own: the arguments of the call
    nRet,       \* a function called on its own: the values returned so far
    nPc,        \* a function called on its own: which call has been made
    companies,  \* the company collection: company id -> company document
    employees,  \* the employee collection: the documents in insertion order
    req,        \* the request being served (the last one served)
    resp,       \* the response to req
    before,     \* the employee collection as it was when req arrived
    calls,      \* number of requests served so far
    attendance, \* the attendance collection: the documents in insertion order
    inflight    \* attendance requests: worker -> the call it serves and the
                \* await it has reached

normVars == <<nArgs, nRet, nPc>>
servedVars == <<companies, employees, req, resp, before, calls>>
attVars == <<attendance, inflight>>
dbVars == <<companies, employees, req, resp, before, calls, attendance, inflight>>

vars == <<nArgs, nRet, nPc, companies, employees, req, resp, before, calls,
          attendance, inflight>>

(***************************************************************************)
(* Python str primitives                                                   *)
(***************************************************************************)
SP == " "
NL == "\n"
TAB == "\t"

\* characters str.strip() removes
Whitespace == {SP, NL, TAB}

UpperChars == <<"A","B","C","D","E","F","G","H","I","J","K","L","M",
                "N","O","P","Q","R","S","T","U","V","W","X","Y","Z">>
LowerChars == <<"a","b","c","d","e","f","g","h","i","j","k","l","m",
                "n","o","p","q","r","s","t","u","v","w","x","y","z">>

\* the lower-case letter of each upper-case letter
LowerOf ==
    [c \in {UpperChars[i] : i \in DOMAIN UpperChars} |->
        LowerChars[CHOOSE i \in DOMAIN UpperChars : UpperChars[i] = c]]

lowerChar(c) == IF c \in DOMAIN LowerOf THEN LowerOf[c] ELSE c

\* str.lower()
lower(s) == [i \in 1..Len(s) |-> lowerChar(s[i])]

RECURSIVE lstrip(_)
lstrip(s) ==
    IF s # <<>> /\ Head(s) \in Whitespace THEN lstrip(Tail(s)) ELSE s

RECURSIVE rstrip(_)
rstrip(s) ==
    IF s # <<>> /\ s[Len(s)] \in Whitespace
    THEN rstrip(SubSeq(s, 1, Len(s) - 1))
    ELSE s

\* str.strip()
strip(s) == rstrip(lstrip(s))

\* str.replace(old, new) for a non-empty old: left to right, non-overlapping
RECURSIVE replace(_, _, _)
replace(s, old, new) ==
    IF Len(s) < Len(old) THEN s
    ELSE IF SubSeq(s, 1, Len(old)) = old
         THEN new \o replace(SubSeq(s, Len(old) + 1, Len(s)), old, new)
         ELSE <<Head(s)>> \o replace(Tail(s), old, new)

\* sub in s
contains(s, sub) ==
    \E i \in 0..(Len(s) - Len(sub)) : SubSeq(s, i + 1, i + Len(sub)) = sub

Digits == <<"0","1","2","3","4","5","6","7","8","9">>

\* str(n) for a natural number
RECURSIVE str(_)
str(n) ==
    IF n < 10 THEN <<Digits[n + 1]>>
    ELSE str(n \div 10) \o <<Digits[(n % 10) + 1]>>

SetMin(S) == CHOOSE x \in S : \A y \in S : x <= y
SetMax(S) == CHOOSE x \in S : \A y \in S : x >= y

\* the elements of a list, as a set
ToSet(seq) == {seq[i] : i \in 1..Len(seq)}

\* all sequences over S of length at most n
SeqUpTo(S, n) == UNION {[1..k -> S] : k \in 0..n}

(***************************************************************************)
(* Column normalizers and schema validation                                *)
(***************************************************************************)

\* upload_employees.sanitize_field_name with the last replace left out
sanitize_field_name_keeps_spaces(name) ==
    replace(
        lower(strip(replace(replace(replace(name, <<".">>, <<>>),
                                    <<"$">>, <<>>),
                            <<NL>>, <<SP>>))),
        <<SP, SP>>, <<SP>>)

\* upload_employees.sanitize_field_name
sanitize_field_name(name) ==
    replace(
        replace(
            lower(strip(replace(replace(replace(name, <<".">>, <<>>),
                                        <<"$">>, <<>>),
                                <<NL>>, <<SP>>))),
            <<SP, SP>>, <<SP>>),
        <<SP>>, <<"_">>)

\* validate_excel_columns.norm
norm(c) == lower(strip(c))

\* validate_excel_columns with a one-sided comparison
validate_excel_columns_subset(actual_cols, expected_cols) ==
    {norm(expected_cols[i]) : i \in 1..Len(expected_cols)}
        \subseteq {norm(actual_cols[i]) : i \in 1..Len(actual_cols)}

\* validate_excel_columns
validate_excel_columns(actual_cols, expected_cols) ==
    LET actual_norm == [i \in 1..Len(actual_cols) |-> norm(actual_cols[i])]
        expected_norm == [i \in 1..Len(expected_cols) |-> norm(expected_cols[i])]
    IN  ToSet(actual_norm) = ToSet(expected_norm)

(***************************************************************************)
(* Values, cells, ordered dictionaries                                     *)
(***************************************************************************)
S_unnamed == <<"u", "n", "n", "a", "m", "e", "d">>
S_Unnamed_ == <<"U", "n", "n", "a", "m", "e", "d", ":", SP>>
S_Column_ == <<"C", "o", "l", "u", "m", "n", "_">>
S_row_tpl == <<"{", "r", "o", "w", "}">>
S_total == <<"t", "o", "t", "a", "l">>
S_email == <<"e", "m", "a", "i", "l">>
S_company_id == <<"c", "o", "m", "p", "a", "n", "y", "_", "i", "d">>
S_id == <<"_", "i", "d">>
S_columns == <<"c", "o", "l", "u", "m", "n", "s">>
S_header_row_index == <<"h", "e", "a", "d", "e", "r", "_", "r", "o", "w", "_", "i", "n", "d", "e", "x">>
S_None == <<"N", "o", "n", "e">>
S_gross == <<"g", "r", "o", "s", "s">>
S_amount == <<"a", "m", "o", "u", "n", "t">>
S_ded == <<"d", "e", "d">>
S_net == <<"n", "e", "t">>
S_amt == <<"a", "m", "t">>
S_payable == <<"p", "a", "y", "a", "b", "l", "e">>

\* a scalar: None, a str, a number; a worksheet cell may also be a formula,
\* whose text is s and whose cached result is the number n
Null == [t |-> "null", s |-> <<>>, n |-> 0]
Str(x) == [t |-> "str", s |-> x, n |-> 0]
Num(k) == [t |-> "num", s |-> <<>>, n |-> k]
Formula(text, cached) == [t |-> "f", s |-> text, n |-> cached]

\* bool(v) of a scalar
Truthy(v) ==
    CASE v.t = "null" -> FALSE
      [] v.t = "str" -> v.s # <<>>
      [] v.t = "num" -> v.n # 0
      [] OTHER -> TRUE

\* str(v) of a scalar that is not None
PyStr(v) == IF v.t = "num" THEN str(v.n) ELSE v.s

\* a Python dict / BSON document: a sequence of [k, v] with distinct keys, in
\* insertion order
DictKeys(d) == [i \in 1..Len(d) |-> d[i].k]
DictHas(d, key) == \E i \in 1..Len(d) : d[i].k = key
DictGet(d, key) == d[CHOOSE i \in 1..Len(d) : d[i].k = key].v
\* d[key] = value
DictSet(d, key, value) ==
    IF DictHas(d, key)
    THEN [i \in 1..Len(d) |-> IF d[i].k = key THEN [k |-> key, v |-> value] ELSE d[i]]
    ELSE Append(d, [k |-> key, v |-> value])

\* d.update(e) / {"$set": e}
RECURSIVE DictUpdate(_, _)
DictUpdate(d, e) ==
    IF e = <<>> THEN d
    ELSE DictUpdate(DictSet(d, Head(e).k, Head(e).v), Tail(e))

\* sep.join(parts)
RECURSIVE join(_, _)
join(sep, parts) ==
    IF parts = <<>> THEN <<>>
    ELSE IF Len(parts) = 1 THEN parts[1]
    ELSE parts[1] \o sep \o join(sep, Tail(parts))

\* the elements of seq that satisfy Test, in order
SelectSeqIdx(seq, Test(_)) ==
    LET F[i \in 0..Len(seq)] ==
            IF i = 0 THEN <<>>
            ELSE IF Test(seq[i]) THEN Append(F[i - 1], seq[i]) ELSE F[i - 1]
    IN  F[Len(seq)]

\* any(term in s for term in terms)
ContainsAny(s, terms) == \E i \in 1..Len(terms) : contains(s, terms[i])

\* openpyxl get_column_letter / cell.column_letter for the first 26 columns
get_column_letter(idx) == <<UpperChars[idx]>>

(***************************************************************************)
(* A worksheet is a sequence of rows, each a sequence of cells of the same *)
(* width.  pandas sees values (a formula's cached result), openpyxl sees   *)
(* formula text.                                                           *)
(***************************************************************************)

\* the value pandas reads from a cell
PdValue(c) == IF c.t = "f" THEN Num(c.n) ELSE c

\* row.fillna("").astype(str) for one cell
PdText(c) == IF PdValue(c).t = "null" THEN <<>> ELSE PyStr(PdValue(c))

\* the column labels pandas derives from a header row: an empty cell is
\* labelled "Unnamed: <position>", a repeated label gets ".<k>"
PdLabels(row) ==
    LET base == [j \in 1..Len(row) |->
                    IF PdValue(row[j]).t = "null"
                    THEN S_Unnamed_ \o str(j - 1)
                    ELSE PyStr(PdValue(row[j]))]
        seen(j) == Cardinality({i \in 1..(j - 1) : base[i] = base[j]})
    IN  [j \in 1..Len(row) |->
            IF seen(j) = 0 THEN base[j] ELSE base[j] \o <<".">> \o str(seen(j))]

indicators ==
    << <<"s", "r">>,
       <<"e", "m", "p">>,
       <<"i", "d">>,
       <<"n", "a", "m", "e">>,
       <<"e", "m", "a", "i", "l">>,
       <<"b", "a", "s", "i", "c">>,
       <<"h", "r", "a">>,
       <<"g", "r", "o", "s", "s">>,
       <<"n", "e", "t">>,
       <<"t", "a", "x">>,
       <<"d", "e", "d", "u", "c", "t", "i", "o", "n">> >>

\* clean_columns
clean_columns(columns) ==
    [i \in 1..Len(columns) |->
        IF contains(lower(columns[i]), S_unnamed)
        THEN S_Column_ \o str(i)
        ELSE strip(columns[i])]

PreviewRows == 10
MinKeywordMatches == 3
FallbackHeaderRow == 2

keyword_matches(row) ==
    Cardinality({j \in 1..Len(row) : ContainsAny(lower(PdText(row[j])), indicators)})

non_empty_cells(row) ==
    Cardinality({j \in 1..Len(row) :
        /\ strip(lower(PdText(row[j]))) # <<>>
        /\ ~contains(lower(PdText(row[j])), S_unnamed)})

\* the candidate test with its second condition left out
IsCandidateByKeywords(row) == keyword_matches(row) >= MinKeywordMatches

\* keyword_matches >= 3 and non_empty_cells >= len(row) * 0.5
IsCandidate(row) ==
    /\ keyword_matches(row) >= MinKeywordMatches
    /\ 2 * non_empty_cells(row) >= Len(row)

\* the 0-based indices of the candidate rows among the first 10
Candidates(sheet) ==
    {i \in 0..(PreviewRows - 1) : i < Len(sheet) /\ IsCandidate(sheet[i + 1])}

\* the last row with the highest score
BestRowLast(sheet, candidates) ==
    CHOOSE i \in candidates :
        \A k \in candidates :
            \/ keyword_matches(sheet[k + 1]) < keyword_matches(sheet[i + 1])
            \/ (keyword_matches(sheet[k + 1]) = keyword_matches(sheet[i + 1]) /\ k <= i)

\* max(candidates, key=lambda x: x[1])[0]: the first row with the highest score
BestRow(sheet, candidates) ==
    CHOOSE i \in candidates :
        \A k \in candidates :
            \/ keyword_matches(sheet[k + 1]) < keyword_matches(sheet[i + 1])
            \/ (keyword_matches(sheet[k + 1]) = keyword_matches(sheet[i + 1]) /\ i <= k)

\* the header row read with the 0-based index h; pandas cannot take its
\* header from a row the sheet does not have
ReadHeader(sheet, h) ==
    IF h >= Len(sheet)
    THEN [ok |-> FALSE, columns |-> <<>>, header_row_index |-> h]
    ELSE [ok |-> TRUE,
          columns |-> clean_columns(PdLabels(sheet[h + 1])),
          header_row_index |-> h]

\* extract_columns_from_excel(file) without an explicit header row
extract_columns_from_excel(sheet) ==
    CHOOSE info \in
        { ReadHeader(sheet, h) :
          h \in { IF candidates # {}
                  THEN BestRow(sheet, candidates)
                  ELSE FallbackHeaderRow : candidates \in {Candidates(sheet)} } } :
        TRUE

(***************************************************************************)
(* Formula extraction (utils/excel_extraction.py)                          *)
(***************************************************************************)
CalculatedTerms ==
    << <<"g", "r", "o", "s", "s">>,
       <<"t", "o", "t", "a", "l">>,
       <<"n", "e", "t">>,
       <<"p", "a", "y", "a", "b", "l", "e">>,
       <<"d", "e", "d", "u", "c", "t", "i", "o", "n">>,
       <<"s", "u", "b", "t", "o", "t", "a", "l">>,
       <<"s", "u", "m">> >>
GrossInputTerms ==
    << <<"b", "a", "s", "i", "c">>,
       <<"h", "r", "a">>,
       <<"a", "l", "l", "o", "w">>,
       <<"r", "e", "i", "m", "b">>,
       <<"c", "o", "n", "v">>,
       <<"l", "t", "a">>,
       <<"m", "e", "d", "i", "c", "a", "l">>,
       <<"e", "d", "u", "c", "a", "t", "i", "o", "n">> >>
DeductionTerms ==
    << <<"t", "a", "x">>,
       <<"t", "d", "s">>,
       <<"e", "s", "i", "c">>,
       <<"p", ".", "f">>,
       <<"p", "f">>,
       <<"a", "d", "v", "a", "n", "c", "e">>,
       <<"d", "e", "d", "u", "c", "t", "i", "o", "n">> >>
BonusTerms ==
    << <<"b", "o", "n", "u", "s">>,
       <<"r", "e", "i", "m", "b", "u", "r", "s", "e", "m", "e", "n", "t">>,
       <<"o", "t", "h", "e", "r">> >>

\* rows scanned below the header
FormulaScanRows == 5

\* bool(cell.value) and str(cell.value) as openpyxl reads the cell
XlTruthy(c) == IF c.t = "f" THEN TRUE ELSE Truthy(c)
XlStr(c) == PyStr(c)

\* cell.data_type == 'f' and cell.value and str(cell.value).startswith('=')
IsFormulaCell(c) == c.t = "f" /\ c.s # <<>> /\ Head(c.s) = "="

\* headers: {col_idx: str(cell.value).strip()} over the cells of the header
\* row that hold a value
SheetHeaders(sheet, header_row) ==
    LET row == sheet[header_row]
        F[j \in 0..Len(row)] ==
            IF j = 0 THEN <<>>
            ELSE IF XlTruthy(row[j])
                 THEN Append(F[j - 1], [k |-> j, v |-> strip(XlStr(row[j]))])
                 ELSE F[j - 1]
    IN  F[Len(row)]

\* formula.replace(str(data_row), "{row}") naming every digit run that
\* spells the row, wherever it stands
MakeTemplate(formula, data_row) == replace(formula, str(data_row), S_row_tpl)

\* the inner loop of the scan without its "header not in formulas" test: a
\* later formula replaces the template captured before
RECURSIVE ScanRowOverwriting(_, _, _, _, _)
ScanRowOverwriting(formulas, cells, headers, data_row, i) ==
    IF i > Len(headers) THEN formulas
    ELSE LET cell == cells[headers[i].k]
             header == headers[i].v
             found ==
                 IF IsFormulaCell(cell)
                 THEN DictSet(formulas, header, MakeTemplate(cell.s, data_row))
                 ELSE formulas
         IN  ScanRowOverwriting(found, cells, headers, data_row, i + 1)

\* the inner loop of the scan: one data row, the header columns from i on
RECURSIVE ScanRow(_, _, _, _, _)
ScanRow(formulas, cells, headers, data_row, i) ==
    IF i > Len(headers) THEN formulas
    ELSE LET cell == cells[headers[i].k]
             header == headers[i].v
             found ==
                 IF IsFormulaCell(cell) /\ ~DictHas(formulas, header)
                 THEN DictSet(formulas, header, MakeTemplate(cell.s, data_row))
                 ELSE formulas
         IN  ScanRow(found, cells, headers, data_row, i + 1)

\* the outer loop of the scan: data rows data_row .. last_row
RECURSIVE ScanFormulas(_, _, _, _, _)
ScanFormulas(formulas, sheet, headers, data_row, last_row) ==
    IF data_row > last_row THEN formulas
    ELSE ScanFormulas(ScanRow(formulas, sheet[data_row], headers, data_row, 1),
                      sheet, headers, data_row + 1, last_row)

\* the letter of the first header equal to name up to case, <<>> if none
FirstHeaderLetter(headers, name) ==
    IF \E i \in 1..Len(headers) : lower(headers[i].v) = lower(name)
    THEN get_column_letter(
            headers[CHOOSE i \in 1..Len(headers) :
                /\ lower(headers[i].v) = lower(name)
                /\ \A m \in 1..(i - 1) : lower(headers[m].v) # lower(name)].k)
    ELSE <<>>

\* the letter of the last header equal to name up to case, <<>> if none
LastHeaderLetter(headers, name) ==
    IF \E i \in 1..Len(headers) : lower(headers[i].v) = lower(name)
    THEN get_column_letter(
            headers[CHOOSE i \in 1..Len(headers) :
                /\ lower(headers[i].v) = lower(name)
                /\ \A m \in (i + 1)..Len(headers) : lower(headers[m].v) # lower(name)].k)
    ELSE <<>>

\* "<letter>{row}" for each listed column that a header names, in list order
RECURSIVE TermLetters(_, _)
TermLetters(cols, headers) ==
    IF cols = <<>> THEN <<>>
    ELSE LET letter == FirstHeaderLetter(headers, Head(cols))
         IN  (IF letter = <<>> THEN <<>> ELSE << letter \o S_row_tpl >>)
                 \o TermLetters(Tail(cols), headers)

\* the first column whose lower-cased name contains both a and b, as a
\* list of at most one column
FirstWithBoth(columns, a, b) ==
    LET hits == SelectSeqIdx(columns,
                    LAMBDA c : contains(lower(c), a) /\ contains(lower(c), b))
    IN  IF hits = <<>> THEN <<>> ELSE <<hits[1]>>

\* the formula inferred for one calculated column, as a list of at most one
InferFormula(col, columns, headers) ==
    LET col_lower == lower(col)
        withAny(terms) == SelectSeqIdx(columns, LAMBDA c : ContainsAny(lower(c), terms))
        gross_col == FirstWithBoth(columns, S_gross, S_amount)
        total_ded_col == FirstWithBoth(columns, S_total, S_ded)
        net_col == FirstWithBoth(columns, S_net, S_amt)
    IN  IF FirstHeaderLetter(headers, col) = <<>> THEN <<>>
        ELSE IF contains(col_lower, S_gross) /\ contains(col_lower, S_amount)
        THEN LET input_letters == TermLetters(withAny(GrossInputTerms), headers)
             IN  IF input_letters # <<>>
                 THEN << <<"=">> \o join(<<"+">>, input_letters) >>
                 ELSE <<>>
        ELSE IF contains(col_lower, S_total) /\ contains(col_lower, S_ded)
        THEN LET deduction_letters == TermLetters(withAny(DeductionTerms), headers)
             IN  IF deduction_letters # <<>>
                 THEN << <<"=">> \o join(<<"+">>, deduction_letters) >>
                 ELSE <<>>
        ELSE IF contains(col_lower, S_net) /\ contains(col_lower, S_amt)
        THEN IF gross_col # <<>> /\ total_ded_col # <<>>
             THEN LET gross_letter == LastHeaderLetter(headers, gross_col[1])
                      \* the elif arm: headers equal to the gross column never
                      \* set ded_letter
                      ded_headers == SelectSeqIdx(headers,
                          LAMBDA e : lower(e.v) # lower(gross_col[1]))
                      ded_letter == LastHeaderLetter(ded_headers, total_ded_col[1])
                  IN  IF gross_letter # <<>> /\ ded_letter # <<>>
                      THEN << <<"=">> \o gross_letter \o S_row_tpl
                                \o <<"-">> \o ded_letter \o S_row_tpl >>
                      ELSE <<>>
             ELSE <<>>
        ELSE IF contains(col_lower, S_payable)
        THEN IF net_col # <<>>
             THEN LET found == FirstHeaderLetter(headers, net_col[1])
                      net_letter == IF found = <<>> THEN S_None ELSE found
                      formula_parts == << net_letter \o S_row_tpl >>
                                          \o TermLetters(withAny(BonusTerms), headers)
                  IN  << <<"=">> \o join(<<"+">>, formula_parts) >>
             ELSE <<>>
        ELSE <<>>

\* the fallback loop over the calculated columns
RECURSIVE InferFormulas(_, _, _, _)
InferFormulas(formulas, calculated, columns, headers) ==
    IF calculated = <<>> THEN formulas
    ELSE LET made == InferFormula(Head(calculated), columns, headers)
         IN  InferFormulas(
                 IF made = <<>> THEN formulas
                 ELSE DictSet(formulas, Head(calculated), made[1]),
                 Tail(calculated), columns, headers)

\* the scan of extract_formulas_from_excel alone
ScannedFormulas(sheet, header_row_index) ==
    LET last_row == IF Len(sheet) < header_row_index + FormulaScanRows + 1
                    THEN Len(sheet)
                    ELSE header_row_index + FormulaScanRows + 1
    IN  ScanFormulas(<<>>, sheet, SheetHeaders(sheet, header_row_index + 1),
                     header_row_index + 2, last_row)

\* extract_formulas_from_excel(file): [ok, formulas]
extract_formulas_from_excel(sheet) ==
    LET header_info == extract_columns_from_excel(sheet)
        h == header_info.header_row_index
        headers == SheetHeaders(sheet, h + 1)
        scanned == ScannedFormulas(sheet, h)
        calculated == SelectSeqIdx(header_info.columns,
                          LAMBDA c : ContainsAny(lower(c), CalculatedTerms))
    IN  IF ~header_info.ok THEN [ok |-> FALSE, formulas |-> <<>>]
        ELSE [ok |-> TRUE,
              formulas |-> IF scanned # <<>> THEN scanned
                           ELSE InferFormulas(<<>>, calculated,
                                              header_info.columns, headers)]

(***************************************************************************)
(* Workbook generation (utils/excel_utils.py)                              *)
(***************************************************************************)

\* the worksheet row of the first record
FirstDataRow == 4

\* formula_template.replace("{row}", str(row_idx))
InstantiateTemplate(formula_template, row_idx) ==
    replace(formula_template, S_row_tpl, str(row_idx))

\* the value written for (emp, col): the value of the first key of emp equal
\* to col up to case, None if there is none
RecordValue(emp, col) ==
    LET matching_keys == SelectSeqIdx(DictKeys(emp), LAMBDA k : lower(k) = lower(col))
    IN  IF matching_keys # <<>> THEN DictGet(emp, matching_keys[1]) ELSE Null

\* the 1-based index of the first column equal to col_name up to case, 0 if none
FormulaColumn(columns, col_name) ==
    IF \E i \in 1..Len(columns) : lower(columns[i]) = lower(col_name)
    THEN CHOOSE i \in 1..Len(columns) :
            /\ lower(columns[i]) = lower(col_name)
            /\ \A m \in 1..(i - 1) : lower(columns[m]) # lower(col_name)
    ELSE 0

\* the formula pass over one worksheet row: the entries of formula_mapping
\* from i on, each written over the cell of its column
RECURSIVE ApplyFormulas(_, _, _, _, _)
ApplyFormulas(cells, columns, formula_mapping, row_idx, i) ==
    IF i > Len(formula_mapping) THEN cells
    ELSE LET col_idx == FormulaColumn(columns, formula_mapping[i].k)
             formula == InstantiateTemplate(formula_mapping[i].v, row_idx)
         IN  ApplyFormulas(
                 IF col_idx # 0
                 THEN [cells EXCEPT ![col_idx] = Formula(formula, 0)]
                 ELSE cells,
                 columns, formula_mapping, row_idx, i + 1)

\* the generator with its frame built as pd.DataFrame(data): without the
\* columns argument a frame of no records has no columns either
create_excel_from_frame_without_columns(emps, columns, formula_mapping) ==
    [header |-> IF emps = <<>> THEN <<>> ELSE columns,
     rows |-> [i \in 1..Len(emps) |->
                ApplyFormulas([j \in 1..Len(columns) |-> RecordValue(emps[i], columns[j])],
                              columns, formula_mapping, FirstDataRow + i - 1, 1)]]

\* create_excel_from_employees_with_formulas: the header row and the data
\* rows of the sheet; rows[i] is worksheet row FirstDataRow + i - 1
create_excel_from_employees_with_formulas(emps, columns, formula_mapping) ==
    [header |-> columns,
     rows |-> [i \in 1..Len(emps) |->
                ApplyFormulas([j \in 1..Len(columns) |-> RecordValue(emps[i], columns[j])],
                              columns, formula_mapping, FirstDataRow + i - 1, 1)]]

(***************************************************************************)
(* The document store: companies and employees                             *)
(***************************************************************************)
CompanyA == <<"c", "1">>
CompanyNone == <<"c", "0">>

\* ids a company can be created under, and ids a request can name
CompanyIds == {CompanyA}
RequestIds == {CompanyA, CompanyNone}

\* the value under "salary_sheet_columns": None, a list of names, or the
\* dict {"columns": [...], "header_row_index": h}
ColsNone == [kind |-> "none", columns |-> <<>>, header_row_index |-> 0]
ColsList(l) == [kind |-> "list", columns |-> l, header_row_index |-> 0]
ColsDict(info) ==
    [kind |-> "dict", columns |-> info.columns,
     header_row_index |-> info.header_row_index]

\* what "for c in <value>" yields: the items of a list, the keys of a dict
IterCols(v) ==
    IF v.kind = "dict" THEN <<S_columns, S_header_row_index>> ELSE v.columns

AbsentCompany ==
    [exists |-> FALSE, salary_sheet_columns |-> ColsNone, salary_sheet_formulas |-> <<>>]

Resp(status, detail, body) == [status |-> status, detail |-> detail, body |-> body]
NoBody == <<>>

\* the documents of emps that belong to company cid, in store order
OfCompany(emps, cid) ==
    SelectSeqIdx(emps, LAMBDA d : DictHas(d, S_company_id)
                                  /\ DictGet(d, S_company_id) = Str(cid))

(***************************************************************************)
(* MongoDB {"$regex": "^<p>$", "$options": "i"} for patterns made of       *)
(* literal characters, "." and a postfix "+"; a pattern with a parenthesis *)
(* that is never closed does not compile.                                  *)
(***************************************************************************)
RegexCompiles(p) == \A i \in 1..Len(p) : p[i] \notin {"(", ")"}

AtomMatches(a, c) == a = "." \/ lowerChar(a) = lowerChar(c)

RECURSIVE RegexFullMatch(_, _)
RegexFullMatch(p, s) ==
    IF p = <<>> THEN s = <<>>
    ELSE IF Len(p) >= 2 /\ p[2] = "+"
    THEN \E n \in 1..Len(s) :
            /\ \A m \in 1..n : AtomMatches(p[1], s[m])
            /\ RegexFullMatch(SubSeq(p, 3, Len(p)), SubSeq(s, n + 1, Len(s)))
    ELSE /\ s # <<>>
         /\ AtomMatches(p[1], s[1])
         /\ RegexFullMatch(Tail(p), Tail(s))

(***************************************************************************)
(* services/employee_service.py                                            *)
(***************************************************************************)
\* A Python value: a dict (kids carry its keys in insertion order), a list
\* (kids carry no key), or a scalar.  x tells one float from another:
\* "nan", "inf", "-inf", or a finite number.
PyNode(type, value, children) == [t |-> type, x |-> value, kids |-> children]
PyNone == PyNode("none", "", <<>>)
PyFloat(value) == PyNode("float", value, <<>>)
PyEntry(key, value) == [k |-> key, v |-> value]

\* math.isnan(data) or math.isinf(data)
IsNanOrInf(data) == data.x \in {"nan", "inf", "-inf"}

\* clean_nan_values that leaves a list as it is
RECURSIVE clean_nan_values_in_dicts(_)
clean_nan_values_in_dicts(data) ==
    IF data.t = "dict"
    THEN PyNode("dict", "",
                [i \in 1..Len(data.kids) |->
                    PyEntry(data.kids[i].k, clean_nan_values_in_dicts(data.kids[i].v))])
    ELSE IF data.t = "float" /\ IsNanOrInf(data) THEN PyNone
    ELSE data

RECURSIVE clean_nan_values(_)
clean_nan_values(data) ==
    IF data.t = "dict"
    THEN PyNode("dict", "",
                [i \in 1..Len(data.kids) |->
                    PyEntry(data.kids[i].k, clean_nan_values(data.kids[i].v))])
    ELSE IF data.t = "list"
    THEN PyNode("list", "",
                [i \in 1..Len(data.kids) |->
                    PyEntry("", clean_nan_values(data.kids[i].v))])
    ELSE IF data.t = "float" /\ IsNanOrInf(data) THEN PyNone
    ELSE data

attendance_columns ==
    << <<"n", "o", ".", SP, "o", "f", SP, "d", "a", "y", "s", SP, "i", "n", SP, "a", SP, "m", "o", "n", "t", "h">>,
       <<"n", "o", ".", SP, "o", "f", SP, "d", "a", "y", "s", SP, "p", "r", "e", "s", "e", "n", "t">> >>

attendance_columns_normalized ==
    [i \in 1..Len(attendance_columns) |-> sanitize_field_name(attendance_columns[i])]

\* the row loop's dict with no column left out
RECURSIVE SanitizedEmployeeOfAllColumns(_, _, _, _)
SanitizedEmployeeOfAllColumns(acc, columns, labels, values) ==
    IF columns = <<>> THEN acc
    ELSE LET col == Head(columns)
             norm_col == sanitize_field_name(col)
             at == {j \in 1..Len(labels) : labels[j] = col}
         IN  SanitizedEmployeeOfAllColumns(
                 IF at = {}
                 THEN acc
                 ELSE DictSet(acc, norm_col, values[SetMin(at)]),
                 Tail(columns), labels, values)

\* the row loop's dict for one row: for each cleaned column that is a label
\* of the frame, the row's value under the storage key of the column
RECURSIVE SanitizedEmployee(_, _, _, _)
SanitizedEmployee(acc, columns, labels, values) ==
    IF columns = <<>> THEN acc
    ELSE LET col == Head(columns)
             norm_col == sanitize_field_name(col)
             at == {j \in 1..Len(labels) : labels[j] = col}
         IN  SanitizedEmployee(
                 IF norm_col \in ToSet(attendance_columns_normalized) \/ at = {}
                 THEN acc
                 ELSE DictSet(acc, norm_col, values[SetMin(at)]),
                 Tail(columns), labels, values)

\* find_one({"company_id": cid, field: {"$regex": "^p$", "$options": "i"}}):
\* the position of the first match, 0 if none
FindByEmail(emps, cid, field, p) ==
    LET hit(d) == /\ DictHas(d, S_company_id)
                  /\ DictGet(d, S_company_id) = Str(cid)
                  /\ DictHas(d, field)
                  /\ DictGet(d, field).t = "str"
                  /\ RegexFullMatch(p, DictGet(d, field).s)
        hits == {i \in 1..Len(emps) : hit(emps[i])}
    IN  IF hits = {} THEN 0 ELSE SetMin(hits)

\* insert_one(doc): the stored document starts with its _id
InsertOne(emps, doc) ==
    Append(emps, <<[k |-> S_id, v |-> Num(Len(emps) + 1)]>> \o doc)

\* the row loop that ends at the first row without an email
RECURSIVE ProcessRowsUntilNoEmail(_, _, _, _, _, _, _)
ProcessRowsUntilNoEmail(st, rows, i, cid, columns, labels, sanitized_email_col) ==
    IF i > Len(rows) \/ st.raised THEN st
    ELSE LET sanitized_employee ==
                 DictSet(SanitizedEmployee(<<>>, columns, labels, rows[i]),
                         S_company_id, Str(cid))
             found == IF DictHas(sanitized_employee, sanitized_email_col)
                      THEN DictGet(sanitized_employee, sanitized_email_col)
                      ELSE Str(<<>>)
             email_value == lower(strip(PyStr(found)))
             at == FindByEmail(st.emps, cid, sanitized_email_col, email_value)
             next ==
                 IF ~Truthy(found)
                 THEN [st EXCEPT !.skipped = @ + 1]
                 ELSE IF ~RegexCompiles(email_value)
                 THEN [st EXCEPT !.raised = TRUE]
                 ELSE IF at # 0
                 THEN [st EXCEPT !.emps[at] = DictUpdate(@, sanitized_employee),
                                 !.updated = @ + 1]
                 ELSE [st EXCEPT !.emps = InsertOne(@, sanitized_employee),
                                 !.inserted = @ + 1]
         IN  IF ~Truthy(found) THEN next
             ELSE ProcessRowsUntilNoEmail(next, rows, i + 1, cid, columns, labels,
                                          sanitized_email_col)

\* the row loop of upload_employees from row i on; st carries the
\* collection, the counters and whether a row raised
RECURSIVE ProcessRows(_, _, _, _, _, _, _)
ProcessRows(st, rows, i, cid, columns, labels, sanitized_email_col) ==
    IF i > Len(rows) \/ st.raised THEN st
    ELSE LET sanitized_employee ==
                 DictSet(SanitizedEmployee(<<>>, columns, labels, rows[i]),
                         S_company_id, Str(cid))
             found == IF DictHas(sanitized_employee, sanitized_email_col)
                      THEN DictGet(sanitized_employee, sanitized_email_col)
                      ELSE Str(<<>>)
             email_value == lower(strip(PyStr(found)))
             at == FindByEmail(st.emps, cid, sanitized_email_col, email_value)
             next ==
                 IF ~Truthy(found)
                 THEN [st EXCEPT !.skipped = @ + 1]
                 ELSE IF ~RegexCompiles(email_value)
                 THEN [st EXCEPT !.raised = TRUE]
                 ELSE IF at # 0
                 THEN [st EXCEPT !.emps[at] = DictUpdate(@, sanitized_employee),
                                 !.updated = @ + 1]
                 ELSE [st EXCEPT !.emps = InsertOne(@, sanitized_employee),
                                 !.inserted = @ + 1]
         IN  ProcessRows(next, rows, i + 1, cid, columns, labels, sanitized_email_col)

\* the rows of the frame with only the all-empty rows dropped
FrameRowsWithTotals(sheet, h) ==
    LET raw == [i \in 1..(Len(sheet) - h - 1) |->
                    [j \in 1..Len(sheet[h + 1 + i]) |-> PdValue(sheet[h + 1 + i][j])]]
        kept(r) == \E j \in 1..Len(r) : r[j].t # "null"
    IN  SelectSeqIdx(raw, kept)

\* the rows of the frame read with the header at 0-based row h, after
\* dropna(how='all') and after dropping the rows with a cell containing "total"
FrameRows(sheet, h) ==
    LET raw == [i \in 1..(Len(sheet) - h - 1) |->
                    [j \in 1..Len(sheet[h + 1 + i]) |-> PdValue(sheet[h + 1 + i][j])]]
        kept(r) == /\ \E j \in 1..Len(r) : r[j].t # "null"
                   /\ ~\E j \in 1..Len(r) : contains(lower(PdText(r[j])), S_total)
    IN  SelectSeqIdx(raw, kept)

\* the body of upload_employees with the rows processed, keyed on the first
\* column, before the missing email column is reported
UploadBodyLateEmailCheck(cid, sheet, expected_columns, emps) ==
    LET header_info == extract_columns_from_excel(sheet)
        columns == header_info.columns
        header_row == header_info.header_row_index
        labels == PdLabels(sheet[header_row + 1])
        email_cols == SelectSeqIdx(columns, LAMBDA c : contains(lower(c), S_email))
        start == [emps |-> emps, inserted |-> 0, updated |-> 0, skipped |-> 0,
                  raised |-> FALSE, error |-> "none"]
    IN  IF ~header_info.ok
        THEN [start EXCEPT !.raised = TRUE, !.error = "extract"]
        ELSE IF expected_columns.kind = "none"
        THEN [start EXCEPT !.raised = TRUE, !.error = "type"]
        ELSE IF ~validate_excel_columns(columns, IterCols(expected_columns))
        THEN [start EXCEPT !.raised = TRUE, !.error = "mismatch"]
        ELSE LET done == ProcessRows(start, FrameRows(sheet, header_row), 1, cid,
                                     columns, labels,
                                     sanitize_field_name(
                                         (email_cols \o columns)[1]))
             IN  IF email_cols = <<>>
                 THEN [done EXCEPT !.raised = TRUE, !.error = "no_email"]
                 ELSE IF done.raised THEN [done EXCEPT !.error = "row"] ELSE done

\* the body of upload_employees inside its try block: the collection it
\* leaves, its counters, and the error it raised if any
UploadBody(cid, sheet, expected_columns, emps) ==
    LET header_info == extract_columns_from_excel(sheet)
        columns == header_info.columns
        header_row == header_info.header_row_index
        labels == PdLabels(sheet[header_row + 1])
        email_cols == SelectSeqIdx(columns, LAMBDA c : contains(lower(c), S_email))
        start == [emps |-> emps, inserted |-> 0, updated |-> 0, skipped |-> 0,
                  raised |-> FALSE, error |-> "none"]
    IN  IF ~header_info.ok
        THEN [start EXCEPT !.raised = TRUE, !.error = "extract"]
        ELSE IF expected_columns.kind = "none"
        THEN [start EXCEPT !.raised = TRUE, !.error = "type"]
        ELSE IF ~validate_excel_columns(columns, IterCols(expected_columns))
        THEN [start EXCEPT !.raised = TRUE, !.error = "mismatch"]
        ELSE IF email_cols = <<>>
        THEN [start EXCEPT !.raised = TRUE, !.error = "no_email"]
        ELSE LET done == ProcessRows(start, FrameRows(sheet, header_row), 1, cid,
                                     columns, labels,
                                     sanitize_field_name(email_cols[1]))
             IN  IF done.raised THEN [done EXCEPT !.error = "row"] ELSE done

\* the first column of the company that data has no key for, up to case, as
\* a list of at most one column
FirstMissingField(columns, data) ==
    LET missing == SelectSeqIdx(columns,
            LAMBDA column :
                /\ ~DictHas(data, column)
                /\ ~\E i \in 1..Len(data) : lower(data[i].k) = lower(column))
    IN  IF missing = <<>> THEN <<>> ELSE <<missing[1]>>

ExportAllowanceTerms ==
    << <<"b", "a", "s", "i", "c">>,
       <<"h", "r", "a">>,
       <<"a", "l", "l", "o", "w">>,
       <<"e", "d", "u", "c", "a", "t", "i", "o", "n">>,
       <<"r", "e", "i", "m", "b">>,
       <<"l", "t", "a">>,
       <<"m", "e", "d", "i", "c", "a", "l">>,
       <<"a", "t", "t", "i", "r", "e">>,
       <<"s", "p", ".", "a", "l", "l">> >>
ExportDeductionTerms ==
    << <<"t", "a", "x">>,
       <<"t", "d", "s">>,
       <<"p", ".", SP, "f">>,
       <<"p", "f">>,
       <<"e", "s", "i", "c">>,
       <<"a", "d", "v", "a", "n", "c", "e">>,
       <<"d", "e", "d", "u", "c", "t", "i", "o", "n">> >>

\* column_indices = {col.lower(): idx}: one entry per lower-cased name, in
\* order of first appearance, holding the last 0-based index of that name
ColumnIndices(columns) ==
    LET F[i \in 0..Len(columns)] ==
            IF i = 0 THEN <<>>
            ELSE DictSet(F[i - 1], lower(columns[i]), i - 1)
    IN  F[Len(columns)]

\* whether the default-formula block of export_employees reaches a call of
\* get_column_letter, a name the function only binds further down
DefaultFormulasRaise(columns) ==
    LET column_indices == ColumnIndices(columns)
        firstWith(a, b) ==
            SelectSeqIdx(column_indices,
                LAMBDA e : contains(e.k, a) /\ contains(e.k, b))
        gross_amount_idx == firstWith(S_gross, S_amount)
        total_ded_idx == firstWith(S_total, S_ded)
        net_amt_idx == firstWith(S_net, S_amt)
        another(terms, own) ==
            \E i \in 1..Len(column_indices) :
                /\ ContainsAny(column_indices[i].k, terms)
                /\ column_indices[i].v # own[1].v
    IN  \/ gross_amount_idx # <<>> /\ another(ExportAllowanceTerms, gross_amount_idx)
        \/ total_ded_idx # <<>> /\ another(ExportDeductionTerms, total_ded_idx)
        \/ gross_amount_idx # <<>> /\ total_ded_idx # <<>> /\ net_amt_idx # <<>>

(***************************************************************************)
(* Requests.  Each action is one request served from arrival to response.  *)
(***************************************************************************)
MaxCalls == 3

\* attendance requests served at the same time
MaxWorkers == 2
Workers == 1..MaxWorkers

\* a worker that serves no attendance request yet
IdleWorker ==
    [op |-> "none", pc |-> "idle", data |-> <<>>, i |-> 0, record_date |-> <<>>,
     existing |-> 0, inserted |-> 0, updated |-> 0, errors |-> 0,
     status |-> 0, message |-> "none"]

Req(op, cid, arg) == [op |-> op, cid |-> cid, arg |-> arg]

Exists(cid) == cid \in CompanyIds /\ companies[cid].exists

\* what every request does besides its own effect
Served(op, cid, arg) ==
    /\ calls < MaxCalls
    /\ calls' = calls + 1
    /\ req' = Req(op, cid, arg)
    /\ before' = employees
    /\ UNCHANGED <<normVars, attVars>>

NotFound == Resp(404, "Company not found", NoBody)

\* create_company
CreateCompany(cid, cols) ==
    /\ cid \in CompanyIds
    /\ ~companies[cid].exists
    /\ Served("create_company", cid, cols)
    /\ companies' = [companies EXCEPT ![cid] =
            [exists |-> TRUE, salary_sheet_columns |-> cols,
             salary_sheet_formulas |-> <<>>]]
    /\ resp' = Resp(200, "Company created", NoBody)
    /\ UNCHANGED employees

\* update_salary_format
UpdateSalaryFormat(cid, cols) ==
    /\ Served("update_salary_format", cid, cols)
    /\ IF ~Exists(cid)
       THEN /\ resp' = NotFound
            /\ UNCHANGED companies
       ELSE /\ companies' = [companies EXCEPT
                    ![cid].salary_sheet_columns = ColsList(cols)]
            /\ resp' = Resp(200, "Salary format updated", NoBody)
    /\ UNCHANGED employees

\* extract_and_update_salary_format
ExtractAndUpdateSalaryFormat(cid, sheet) ==
    /\ calls < MaxCalls
    /\ \E columns \in {extract_columns_from_excel(sheet)},
          formulas \in {extract_formulas_from_excel(sheet)} :
        /\ Served("extract_and_update_salary_format", cid, sheet)
        /\ IF ~Exists(cid)
           THEN /\ resp' = NotFound
                /\ UNCHANGED companies
           ELSE IF ~columns.ok \/ ~formulas.ok
           THEN /\ resp' = Resp(400, "Failed to extract", NoBody)
                /\ UNCHANGED companies
           ELSE /\ companies' = [companies EXCEPT
                        ![cid].salary_sheet_columns = ColsDict(columns),
                        ![cid].salary_sheet_formulas = formulas.formulas]
                /\ resp' = Resp(200, "Salary format updated from Excel template",
                                ColsDict(columns))
        /\ UNCHANGED employees

\* test_extract_columns
TestExtractColumns(sheet) ==
    /\ calls < MaxCalls
    /\ \E columns \in {extract_columns_from_excel(sheet)} :
        /\ Served("test_extract_columns", CompanyNone, sheet)
        /\ resp' = IF columns.ok
                   THEN Resp(200, "extracted_columns", ColsDict(columns))
                   ELSE Resp(400, "Failed to extract headers", NoBody)
        /\ UNCHANGED <<companies, employees>>

\* upload_employees storing the header it extracted as the company's columns
UploadEmployeesStoringColumns(cid, sheet) ==
    /\ Served("upload_employees", cid, sheet)
    /\ IF ~Exists(cid)
       THEN /\ resp' = NotFound
            /\ UNCHANGED <<employees, companies>>
       ELSE \E out \in {UploadBody(cid, sheet, companies[cid].salary_sheet_columns,
                                  employees)} :
                /\ employees' = out.emps
                /\ companies' = [companies EXCEPT ![cid].salary_sheet_columns =
                        ColsList(extract_columns_from_excel(sheet).columns)]
                /\ resp' = IF out.raised
                           THEN Resp(500, "Upload failed", [error |-> out.error])
                           ELSE Resp(200, "Employee upload completed",
                                     [inserted |-> out.inserted,
                                      updated |-> out.updated,
                                      skipped |-> out.skipped])

\* upload_employees
UploadEmployees(cid, sheet) ==
    /\ Served("upload_employees", cid, sheet)
    /\ IF ~Exists(cid)
       THEN /\ resp' = NotFound
            /\ UNCHANGED employees
       ELSE \E out \in {UploadBody(cid, sheet, companies[cid].salary_sheet_columns,
                                  employees)} :
                /\ employees' = out.emps
                /\ resp' = IF out.raised
                           THEN Resp(500, "Upload failed", [error |-> out.error])
                           ELSE Resp(200, "Employee upload completed",
                                     [inserted |-> out.inserted,
                                      updated |-> out.updated,
                                      skipped |-> out.skipped])
    /\ UNCHANGED companies

\* add_employee
AddEmployee(cid, data) ==
    /\ Served("add_employee", cid, data)
    /\ IF ~Exists(cid)
       THEN /\ resp' = NotFound
            /\ UNCHANGED employees
       ELSE IF companies[cid].salary_sheet_columns.kind = "none"
       THEN /\ resp' = Resp(500, "Internal Server Error", NoBody)
            /\ UNCHANGED employees
       ELSE LET missing == FirstMissingField(
                               IterCols(companies[cid].salary_sheet_columns), data)
            IN  IF missing # <<>>
                THEN /\ resp' = Resp(400, "Missing required field", missing[1])
                     /\ UNCHANGED employees
                ELSE /\ employees' = InsertOne(employees,
                                               DictSet(data, S_company_id, Str(cid)))
                     /\ resp' = Resp(200, "Employee added successfully", NoBody)
    /\ UNCHANGED companies

\* export_employees without filters
ExportEmployees(cid) ==
    /\ Served("export_employees", cid, <<>>)
    /\ IF ~Exists(cid)
       THEN resp' = NotFound
       ELSE LET company == companies[cid]
                columns == IterCols(company.salary_sheet_columns)
                formula_mapping == company.salary_sheet_formulas
                emps == OfCompany(employees, cid)
            IN  IF formula_mapping = <<>>
                   /\ (company.salary_sheet_columns.kind = "none"
                       \/ DefaultFormulasRaise(columns))
                THEN resp' = Resp(500, "Internal Server Error", NoBody)
                ELSE IF emps = <<>>
                THEN resp' = Resp(404, "No employees found", NoBody)
                ELSE IF company.salary_sheet_columns.kind = "none"
                THEN resp' = Resp(500, "Error generating Excel", NoBody)
                ELSE resp' = Resp(200, "workbook",
                        create_excel_from_employees_with_formulas(
                            emps, columns, formula_mapping))
    /\ UNCHANGED <<companies, employees>>

\* api_export_employees (routers/employee_router.py): the handler calls
\* export_employees(company_id, filters, year, month), two positional
\* arguments more than the function takes, so the call raises TypeError
\* before the service runs and the request is answered with a server error
ApiExportEmployees(cid) ==
    /\ Served("api_export_employees", cid, <<>>)
    /\ resp' = Resp(500, "Internal Server Error", NoBody)
    /\ UNCHANGED <<companies, employees>>

\* get_employee: the lookup and the 404 raised for no match are both inside
\* the try block, whose handler answers every exception with 500 and the
\* exception's text.  No stored value modelled is a NaN, so clean_nan_values
\* returns the document as it is.
GetEmployee(cid, employee_id) ==
    /\ Served("get_employee", cid, employee_id)
    /\ LET hits == {i \in 1..Len(employees) :
                       /\ DictGet(employees[i], S_id) = Num(employee_id)
                       /\ DictHas(employees[i], S_company_id)
                       /\ DictGet(employees[i], S_company_id) = Str(cid)}
       IN  resp' = IF hits = {}
                   THEN Resp(500, "404: Employee not found", NoBody)
                   ELSE Resp(200, "employee",
                             DictSet(employees[SetMin(hits)], S_id,
                                     Str(str(employee_id))))
    /\ UNCHANGED <<companies, employees>>

(***************************************************************************)
(* import_salary_sheet_with_formulas (routers/company_router.py), which    *)
(* reads the workbook with openpyxl and finds the header row by itself     *)
(***************************************************************************)
ImportTerms ==
    << <<"s", "a", "l", "a", "r", "y">>,
       <<"b", "a", "s", "i", "c">>,
       <<"h", "r", "a">>,
       <<"g", "r", "o", "s", "s">>,
       <<"d", "e", "d", "u", "c", "t", "i", "o", "n">>,
       <<"n", "e", "t">> >>

ImportSearchRows == 10
ImportMinCells == 5
ImportDefaultHeaderRow == 3

\* sheet[i]: the cells of the 1-based row i, empty cells for a row the
\* sheet does not have
XlRow(sheet, i) ==
    IF i <= Len(sheet) THEN sheet[i] ELSE [j \in 1..Len(sheet[1]) |-> Null]

\* [str(val).strip() for val in row_values if val is not None and str(val).strip()]
ImportRowValues(row) ==
    LET F[j \in 0..Len(row)] ==
            IF j = 0 THEN <<>>
            ELSE IF row[j].t # "null" /\ strip(XlStr(row[j])) # <<>>
                 THEN Append(F[j - 1], strip(XlStr(row[j])))
                 ELSE F[j - 1]
    IN  F[Len(row)]

\* len(row_values) >= 5 and any(term in row_text ...)
ImportIsHeader(row) ==
    /\ Len(ImportRowValues(row)) >= ImportMinCells
    /\ ContainsAny(lower(join(<<SP>>, ImportRowValues(row))), ImportTerms)

\* header_row_idx, 1-based: the first of rows 1..10 that looks like a header,
\* row 3 if none does
ImportHeaderRow(sheet) ==
    LET found == {i \in 1..ImportSearchRows : ImportIsHeader(XlRow(sheet, i))}
    IN  IF found = {} THEN ImportDefaultHeaderRow ELSE SetMin(found)

\* column_mapping: {col_idx: expected column} over the header cells that
\* hold a value, by exact match up to case or else by a single partial match
ImportColumnMapping(sheet, header_row_idx, expected_columns) ==
    LET actual_headers == SheetHeaders(<<XlRow(sheet, header_row_idx)>>, 1)
        exact(h) == SelectSeqIdx(expected_columns,
                        LAMBDA col : lower(col) = lower(h))
        partial(h) == SelectSeqIdx(expected_columns,
                        LAMBDA col : \/ contains(lower(col), lower(h))
                                     \/ contains(lower(h), lower(col)))
        F[i \in 0..Len(actual_headers)] ==
            IF i = 0 THEN <<>>
            ELSE LET h == actual_headers[i].v
                 IN  IF exact(h) # <<>>
                     THEN Append(F[i - 1], [k |-> actual_headers[i].k, v |-> exact(h)[1]])
                     ELSE IF Len(partial(h)) = 1
                     THEN Append(F[i - 1], [k |-> actual_headers[i].k, v |-> partial(h)[1]])
                     ELSE F[i - 1]
    IN  F[Len(actual_headers)]

\* formulas: the templates of the formula cells of the first data row
ImportFormulas(sheet, expected_columns) ==
    LET header_row_idx == ImportHeaderRow(sheet)
        column_mapping == ImportColumnMapping(sheet, header_row_idx, expected_columns)
        data_row_idx == header_row_idx + 1
        cells == XlRow(sheet, data_row_idx)
        F[i \in 0..Len(column_mapping)] ==
            IF i = 0 THEN <<>>
            ELSE IF IsFormulaCell(cells[column_mapping[i].k])
                 THEN DictSet(F[i - 1], column_mapping[i].v,
                              replace(XlStr(cells[column_mapping[i].k]),
                                      str(data_row_idx), S_row_tpl))
                 ELSE F[i - 1]
    IN  F[Len(column_mapping)]

\* import_salary_sheet_with_formulas: update_one changes the company if
\* there is one and nothing otherwise
ImportSalarySheetWithFormulas(cid, sheet, expected_columns) ==
    /\ calls < MaxCalls
    /\ \E formulas \in {ImportFormulas(sheet, expected_columns)} :
        /\ Served("import_salary_sheet_with_formulas", cid, <<sheet, expected_columns>>)
        /\ companies' = IF Exists(cid)
                        THEN [companies EXCEPT ![cid].salary_sheet_formulas = formulas]
                        ELSE companies
        /\ resp' = Resp(200, "Successfully imported salary sheet formulas",
                        [formulas_count |-> Len(formulas)])
        /\ UNCHANGED employees

(***************************************************************************)
(* The requests exercised                                                  *)
(***************************************************************************)
N_EMP_ID == <<"E", "M", "P", SP, "I", "D">>
N_Email == <<"E", "m", "a", "i", "l">>
N_Basic_Pay == <<"B", "a", "s", "i", "c", SP, "P", "a", "y">>
N_Name == <<"N", "a", "m", "e">>
N_emp_id == <<"e", "m", "p", SP, "i", "d">>
N_EMAIL == <<"E", "M", "A", "I", "L">>
N_Basic_Pay_sp == <<"B", "a", "s", "i", "c", SP, "P", "a", "y", SP>>
N_Gross_Amount == <<"G", "r", "o", "s", "s", SP, "A", "m", "o", "u", "n", "t">>
N_email_sp == <<SP, "e", "m", "a", "i", "l">>
N_Pay == <<"P", "a", "y">>
N_HRA == <<"H", "R", "A">>
N_Tax == <<"T", "a", "x">>
N_Net_Pay_sp == <<SP, "N", "e", "t", SP, "P", "a", "y", SP>>
N_Total_Deduction == <<"T", "o", "t", "a", "l", SP, "D", "e", "d", "u", "c", "t", "i", "o", "n">>
N_Total_Ded == <<"T", "o", "t", "a", "l", SP, "D", "e", "d">>
N_Net_Amount == <<"N", "e", "t", SP, "A", "m", "o", "u", "n", "t">>
N_Net_Amt == <<"N", "e", "t", SP, "A", "m", "t">>
N_Payable == <<"P", "a", "y", "a", "b", "l", "e">>
N_Days_Present == <<"N", "o", ".", SP, "o", "f", SP, "D", "a", "y", "s", SP, "P", "r", "e", "s", "e", "n", "t">>
V_E1 == <<"E", "1">>
E_dot == <<"a", ".", "b">>
E_DOT == <<"A", ".", "B">>
E_x == <<"a", "x", "b">>
E_plus == <<"a", "+", "b">>
E_paren == <<"a", "(", "b">>

\* canonical column lists a client supplies
ColumnLists ==
    { <<N_EMP_ID, N_Email, N_Basic_Pay>>, <<N_EMP_ID, N_Name, N_Basic_Pay>>,
      <<N_Days_Present, N_Email, N_Basic_Pay>>,
      <<N_Email, N_Basic_Pay, N_Gross_Amount>> }

\* header rows of uploaded sheets
HeaderPlain == <<Str(N_EMP_ID), Str(N_Email), Str(N_Basic_Pay)>>
HeaderSpelledOtherwise == <<Str(N_emp_id), Str(N_EMAIL), Str(N_Basic_Pay_sp)>>
HeaderNoEmail == <<Str(N_EMP_ID), Str(N_Name), Str(N_Basic_Pay)>>
HeaderWithGross == <<Str(N_Email), Str(N_Basic_Pay), Str(N_Gross_Amount)>>
HeaderWithAttendance == <<Str(N_Days_Present), Str(N_Email), Str(N_Basic_Pay)>>

TitleRows == << <<Str(N_Pay), Null, Null>>, <<Null, Null, Null>> >>

V_Total == <<"T", "o", "t", "a", "l">>

DataRow(email, pay) == <<Str(V_E1), email, pay>>

Emails == {Str(E_dot), Str(E_DOT), Str(E_x), Str(E_plus), Str(E_paren), Null}
\* the emails of the two data rows of a sheet: one email twice, an email
\* after or before a row without one, an email after one the store cannot
\* look up
PairedEmails ==
    { <<Str(E_dot), Str(E_dot)>>, <<Null, Str(E_dot)>>, <<Str(E_dot), Null>>,
      <<Str(E_paren), Str(E_dot)>> }

UploadSheets ==
    {TitleRows \o <<HeaderPlain, DataRow(e, Num(100))>> : e \in Emails}
    \cup {TitleRows \o <<HeaderPlain, DataRow(Str(E_dot), Null)>>}
    \cup {TitleRows \o <<HeaderPlain, DataRow(e[1], Num(100)), DataRow(e[2], Num(100))>> :
            e \in PairedEmails}
    \cup {TitleRows \o <<HeaderSpelledOtherwise, DataRow(Str(E_dot), Num(100))>>,
          TitleRows \o <<HeaderNoEmail, DataRow(Str(E_dot), Num(100))>>,
          <<HeaderPlain, DataRow(Str(E_dot), Num(100))>>,
          TitleRows \o <<HeaderWithAttendance, <<Num(30), Str(E_dot), Num(100)>> >>,
          TitleRows \o <<HeaderPlain, DataRow(Str(E_dot), Num(100)), <<Null, Null, Null>>,
                         <<Str(V_Total), Null, Num(100)>> >>}

TemplateSheets ==
    { TitleRows \o <<HeaderPlain, DataRow(Str(E_dot), Num(100))>>,
      TitleRows \o <<HeaderWithGross,
                     <<Str(E_dot), Num(100), Formula(<<"=", "B", "4">>, 100)>> >> }

Entry(key, value) == [k |-> key, v |-> value]

EmployeeData ==
    { <<Entry(N_EMP_ID, Str(V_E1)), Entry(N_Email, Str(E_dot)), Entry(N_Basic_Pay, Num(100))>>,
      <<Entry(N_emp_id, Str(V_E1)), Entry(N_EMAIL, Str(E_dot)), Entry(lower(N_Basic_Pay), Num(100))>>,
      <<Entry(N_EMP_ID, Str(V_E1)), Entry(N_email_sp, Str(E_dot)), Entry(N_Basic_Pay, Num(100))>>,
      <<Entry(N_EMP_ID, Str(V_E1)), Entry(N_Email, Str(E_dot))>>,
      <<Entry(N_EMP_ID, Str(V_E1)), Entry(N_Email, Str(E_dot)), Entry(N_Basic_Pay, Num(100)),
        Entry(N_Name, Str(V_E1))>>,
      <<Entry(N_Days_Present, Num(30)), Entry(S_email, Str(E_dot)), Entry(N_Basic_Pay, Num(100))>>,
      <<Entry(N_Email, Str(E_dot)), Entry(N_Basic_Pay, Num(100)), Entry(N_Gross_Amount, Num(100))>> }

\* a request for a company that does not exist is answered the same
\* whatever else it carries: one representative each
ForCompany(cid, inputs) ==
    IF Exists(cid) THEN inputs ELSE {CHOOSE x \in inputs : TRUE}

DbInit ==
    /\ companies = [c \in CompanyIds |-> AbsentCompany]
    /\ employees = <<>>
    /\ req = Req("none", CompanyNone, <<>>)
    /\ resp = Resp(0, "none", NoBody)
    /\ before = <<>>
    /\ calls = 0
    /\ attendance = <<>>
    /\ inflight = [w \in Workers |-> IdleWorker]

NormIdle ==
    /\ nArgs = <<>>
    /\ nRet = <<>>
    /\ nPc = "idle"

Init == DbInit /\ NormIdle

DoCreateCompany ==
    \E cid \in CompanyIds, cols \in {ColsNone} \cup {ColsList(l) : l \in ColumnLists} :
        CreateCompany(cid, cols)

DoUpdateSalaryFormat ==
    \E cid \in RequestIds : \E cols \in ForCompany(cid, ColumnLists) :
        UpdateSalaryFormat(cid, cols)

DoExtractAndUpdateSalaryFormat ==
    \E cid \in RequestIds : \E sheet \in ForCompany(cid, TemplateSheets) :
        ExtractAndUpdateSalaryFormat(cid, sheet)

DoTestExtractColumns ==
    \E sheet \in TemplateSheets : TestExtractColumns(sheet)

DoUploadEmployees ==
    \E cid \in RequestIds : \E sheet \in ForCompany(cid, UploadSheets) :
        UploadEmployees(cid, sheet)

DoAddEmployee ==
    \E cid \in RequestIds : \E data \in ForCompany(cid, EmployeeData) :
        AddEmployee(cid, data)

DoExportEmployees ==
    \E cid \in RequestIds : ExportEmployees(cid)

DoApiExportEmployees ==
    \E cid \in RequestIds : ApiExportEmployees(cid)

\* workbooks handed to import_salary_sheet_with_formulas: the templates, and
\* one wide enough for its header search
ImportSheets ==
    TemplateSheets
    \cup { << <<Str(N_Email), Str(N_Basic_Pay), Str(N_HRA), Str(N_Tax),
               Str(N_Gross_Amount)>>,
             <<Str(E_dot), Num(100), Num(50), Num(10),
               Formula(<<"=", "B", "2", "+", "C", "2">>, 150)>> >> }

ImportExpectedColumns == { <<N_Email, N_Basic_Pay, N_Gross_Amount>> }

DoImportSalarySheetWithFormulas ==
    \E cid \in RequestIds :
        \E sheet \in ForCompany(cid, ImportSheets),
           expected_columns \in ImportExpectedColumns :
            ImportSalarySheetWithFormulas(cid, sheet, expected_columns)

\* the _id of a stored document and an _id nothing is stored under
EmployeeIds == {1, 9}

DoGetEmployee ==
    \E cid \in RequestIds : \E employee_id \in ForCompany(cid, EmployeeIds) :
        GetEmployee(cid, employee_id)

Next ==
    \/ DoCreateCompany
    \/ DoUpdateSalaryFormat
    \/ DoExtractAndUpdateSalaryFormat
    \/ DoTestExtractColumns
    \/ DoUploadEmployees
    \/ DoAddEmployee
    \/ DoExportEmployees
    \/ DoApiExportEmployees
    \/ DoGetEmployee
    \/ DoImportSalarySheetWithFormulas

Spec == Init /\ [][Next]_vars

(***************************************************************************)
(* Attendance (services/attendance_service.py).  A handler is a coroutine: *)
(* it gives way at every await, so each database call is a step of its own *)
(* and the steps of two requests interleave.  The created_at / updated_at  *)
(* stamps of a document are not carried.                                   *)
(***************************************************************************)
IsDigits(text) == text # <<>> /\ \A i \in 1..Len(text) : text[i] \in ToSet(Digits)

\* int(text) for a text of digits
RECURSIVE ParseInt(_)
ParseInt(text) ==
    IF text = <<>> THEN 0
    ELSE 10 * ParseInt(SubSeq(text, 1, Len(text) - 1))
            + (CHOOSE n \in 0..9 : Digits[n + 1] = text[Len(text)])

\* the pieces of a text between "-" signs
RECURSIVE SplitDashes(_, _, _)
SplitDashes(text, i, piece) ==
    IF i > Len(text) THEN <<piece>>
    ELSE IF text[i] = "-"
         THEN <<piece>> \o SplitDashes(text, i + 1, <<>>)
         ELSE SplitDashes(text, i + 1, Append(piece, text[i]))

\* date.fromisoformat(text), and on its ValueError
\* datetime.strptime(text, "%Y-%m-%d").date(): a four-digit year, a month
\* and a day of one or two digits; <<>> when both raise
ParseDate(text) ==
    LET parts == SplitDashes(text, 1, <<>>)
    IN  IF /\ Len(parts) = 3
           /\ \A k \in 1..3 : IsDigits(parts[k])
           /\ Len(parts[1]) = 4 /\ Len(parts[2]) <= 2 /\ Len(parts[3]) <= 2
           /\ ParseInt(parts[2]) \in 1..12
           /\ ParseInt(parts[3]) \in 1..28
        THEN << [y |-> ParseInt(parts[1]), m |-> ParseInt(parts[2]),
                 d |-> ParseInt(parts[3])] >>
        ELSE <<>>

\* str(n) padded with zeros to the width
ZeroPad(n, width) ==
    [i \in 1..(width - Len(str(n))) |-> "0"] \o str(n)

\* date.isoformat()
isoformat(day) ==
    ZeroPad(day.y, 4) \o <<"-">> \o ZeroPad(day.m, 2) \o <<"-">> \o ZeroPad(day.d, 2)

\* find_one({"_id": ObjectId(employee_id), "company_id": company_id}) on the
\* employee collection
EmployeeFound(company_id, employee_id) ==
    \E i \in 1..Len(employees) :
        /\ DictGet(employees[i], S_id) = Num(employee_id)
        /\ DictHas(employees[i], S_company_id)
        /\ DictGet(employees[i], S_company_id) = Str(company_id)

\* find_one({"company_id": ..., "employee_id": ..., "date": ...}) on the
\* attendance collection: the _id of the first match, 0 for None
FindAttendance(company_id, employee_id, iso_date) ==
    LET hits == {k \in 1..Len(attendance) :
                    /\ attendance[k].company_id = company_id
                    /\ attendance[k].employee_id = employee_id
                    /\ attendance[k].date = iso_date}
    IN  IF hits = {} THEN 0 ELSE attendance[SetMin(hits)].id

\* update_one({"_id": id}, {"$set": {"status": ..., "notes": ...}})
SetStatusAndNotes(id, status, notes) ==
    [k \in 1..Len(attendance) |->
        IF attendance[k].id = id
        THEN [attendance[k] EXCEPT !.status = status, !.notes = notes]
        ELSE attendance[k]]

\* insert_one(attendance_doc)
InsertAttendance(company_id, employee_id, iso_date, status, notes) ==
    Append(attendance,
           [id |-> Len(attendance) + 1, company_id |-> company_id,
            employee_id |-> employee_id, date |-> iso_date,
            status |-> status, notes |-> notes])

Answered(w, status, message) ==
    [inflight EXCEPT ![w].pc = "done", ![w].status = status, ![w].message = message]

\* add_attendance up to its first await: the company lookup
AddAttendanceCompany(w, attendance_data) ==
    /\ inflight[w].pc = "idle"
    /\ inflight' =
         IF ~Exists(attendance_data.company_id)
         THEN [Answered(w, 404, "Company not found") EXCEPT
                  ![w].op = "add_attendance", ![w].data = attendance_data]
         ELSE [inflight EXCEPT ![w].op = "add_attendance",
                               ![w].data = attendance_data,
                               ![w].pc = "employee"]
    /\ UNCHANGED <<normVars, servedVars, attendance>>

\* add_attendance: the employee lookup
AddAttendanceEmployee(w) ==
    /\ inflight[w].op = "add_attendance" /\ inflight[w].pc = "employee"
    /\ inflight' =
         IF ~EmployeeFound(inflight[w].data.company_id, inflight[w].data.employee_id)
         THEN Answered(w, 404, "Employee not found")
         ELSE [inflight EXCEPT ![w].pc = "existing"]
    /\ UNCHANGED <<normVars, servedVars, attendance>>

\* add_attendance: the lookup of the record of the day
AddAttendanceFind(w) ==
    /\ inflight[w].op = "add_attendance" /\ inflight[w].pc = "existing"
    /\ inflight' = [inflight EXCEPT
            ![w].existing = FindAttendance(inflight[w].data.company_id,
                                           inflight[w].data.employee_id,
                                           isoformat(inflight[w].data.date)),
            ![w].pc = "write"]
    /\ UNCHANGED <<normVars, servedVars, attendance>>

\* add_attendance: the update of the record found, or the insert
AddAttendanceWrite(w) ==
    /\ inflight[w].op = "add_attendance" /\ inflight[w].pc = "write"
    /\ LET data == inflight[w].data
       IN  IF inflight[w].existing # 0
           THEN /\ attendance' = SetStatusAndNotes(inflight[w].existing,
                                                   data.status, data.notes)
                /\ inflight' = [Answered(w, 200, "Attendance record updated")
                                   EXCEPT ![w].updated = 1]
           ELSE /\ attendance' = InsertAttendance(data.company_id, data.employee_id,
                                                  isoformat(data.date),
                                                  data.status, data.notes)
                /\ inflight' = [Answered(w, 200, "Attendance record added successfully")
                                   EXCEPT ![w].inserted = 1]
    /\ UNCHANGED <<normVars, servedVars>>

\* the bulk loop moving on to record i, or returning after the last one
BulkAt(w, st, i) ==
    IF i > Len(st.data.records)
    THEN [inflight EXCEPT ![w] = [st EXCEPT !.pc = "done", !.status = 200,
                                            !.message = "Bulk attendance update completed",
                                            !.i = i]]
    ELSE [inflight EXCEPT ![w] = [st EXCEPT !.pc = "employee", !.i = i]]

\* bulk_add_attendance up to its first await: the company lookup
BulkAddAttendanceCompany(w, bulk_data) ==
    /\ inflight[w].pc = "idle"
    /\ inflight' =
         IF ~Exists(bulk_data.company_id)
         THEN [Answered(w, 404, "Company not found") EXCEPT
                  ![w].op = "bulk_add_attendance", ![w].data = bulk_data]
         ELSE BulkAt(w, [inflight[w] EXCEPT !.op = "bulk_add_attendance",
                                            !.data = bulk_data], 1)
    /\ UNCHANGED <<normVars, servedVars, attendance>>

\* bulk_add_attendance: the employee lookup of record i and the parse of
\* its date; a missing employee and a date that does not parse add an error
\* and the loop goes on
BulkAddAttendanceEmployee(w) ==
    /\ inflight[w].op = "bulk_add_attendance" /\ inflight[w].pc = "employee"
    /\ LET st == inflight[w]
           record == st.data.records[st.i]
           parsed == ParseDate(record.date)
       IN  inflight' =
             IF ~EmployeeFound(st.data.company_id, record.employee_id)
                \/ parsed = <<>>
             THEN BulkAt(w, [st EXCEPT !.errors = @ + 1], st.i + 1)
             ELSE [inflight EXCEPT ![w].record_date = parsed[1],
                                   ![w].pc = "existing"]
    /\ UNCHANGED <<normVars, servedVars, attendance>>

\* bulk_add_attendance: the lookup of the record of the day
BulkAddAttendanceFind(w) ==
    /\ inflight[w].op = "bulk_add_attendance" /\ inflight[w].pc = "existing"
    /\ LET st == inflight[w]
       IN  inflight' = [inflight EXCEPT
               ![w].existing = FindAttendance(st.data.company_id,
                                              st.data.records[st.i].employee_id,
                                              isoformat(st.record_date)),
               ![w].pc = "write"]
    /\ UNCHANGED <<normVars, servedVars, attendance>>

\* bulk_add_attendance: the update of the record found, or the insert
BulkAddAttendanceWrite(w) ==
    /\ inflight[w].op = "bulk_add_attendance" /\ inflight[w].pc = "write"
    /\ LET st == inflight[w]
           record == st.data.records[st.i]
       IN  IF st.existing # 0
           THEN /\ attendance' = SetStatusAndNotes(st.existing, record.status,
                                                   record.notes)
                /\ inflight' = BulkAt(w, [st EXCEPT !.updated = @ + 1], st.i + 1)
           ELSE /\ attendance' = InsertAttendance(st.data.company_id,
                                                  record.employee_id,
                                                  isoformat(st.record_date),
                                                  record.status, record.notes)
                /\ inflight' = BulkAt(w, [st EXCEPT !.inserted = @ + 1], st.i + 1)
    /\ UNCHANGED <<normVars, servedVars>>

\* the attendance requests exercised
D_padded == <<"2", "0", "2", "4", "-", "0", "1", "-", "0", "5">>
D_plain == <<"2", "0", "2", "4", "-", "1", "-", "5">>
D_other == <<"2", "0", "2", "4", "-", "0", "1", "-", "0", "6">>
D_none == <<"x">>

AttendanceDays == { [y |-> 2024, m |-> 1, d |-> 5], [y |-> 2024, m |-> 1, d |-> 6] }
AttendanceStatuses == {"present", "absent"}

AttendanceCreates ==
    { [company_id |-> CompanyA, employee_id |-> e, date |-> day, status |-> s,
       notes |-> Null] :
        e \in EmployeeIds, day \in AttendanceDays, s \in AttendanceStatuses }
    \cup { [company_id |-> CompanyNone, employee_id |-> 1,
            date |-> [y |-> 2024, m |-> 1, d |-> 5], status |-> "present",
            notes |-> Null] }

AttendanceRecords ==
    { [employee_id |-> 1, date |-> D_padded, status |-> "present", notes |-> Null],
      [employee_id |-> 1, date |-> D_plain, status |-> "absent", notes |-> Null],
      [employee_id |-> 1, date |-> D_other, status |-> "present", notes |-> Null],
      [employee_id |-> 9, date |-> D_padded, status |-> "present", notes |-> Null],
      [employee_id |-> 1, date |-> D_none, status |-> "present", notes |-> Null] }

\* records of one bulk request
MaxBulkRecords == 2

AttendanceBulkCreates ==
    { [company_id |-> CompanyA, records |-> records] :
        records \in SeqUpTo(AttendanceRecords, MaxBulkRecords) }
    \cup { [company_id |-> CompanyNone, records |-> <<>>] }

\* the company and the employee the attendance requests refer to
AttendanceCompany ==
    CreateCompany(CompanyA, ColsList(<<N_EMP_ID, N_Email, N_Basic_Pay>>))
AttendanceEmployee ==
    /\ employees = <<>>
    /\ AddEmployee(CompanyA,
                   <<Entry(N_EMP_ID, Str(V_E1)), Entry(N_Email, Str(E_dot)),
                     Entry(N_Basic_Pay, Num(100))>>)

AttendanceNext ==
    \/ AttendanceCompany
    \/ AttendanceEmployee
    \/ \E w \in Workers, attendance_data \in AttendanceCreates :
          AddAttendanceCompany(w, attendance_data)
    \/ \E w \in Workers : AddAttendanceEmployee(w)
    \/ \E w \in Workers : AddAttendanceFind(w)
    \/ \E w \in Workers : AddAttendanceWrite(w)
    \/ \E w \in Workers, bulk_data \in AttendanceBulkCreates :
          BulkAddAttendanceCompany(w, bulk_data)
    \/ \E w \in Workers : BulkAddAttendanceEmployee(w)
    \/ \E w \in Workers : BulkAddAttendanceFind(w)
    \/ \E w \in Workers : BulkAddAttendanceWrite(w)

SpecAttendance == Init /\ [][AttendanceNext]_vars

(***************************************************************************)
(* The pure functions called on their own: a call draws its arguments and  *)
(* records what the function returns.                                      *)
(***************************************************************************)
MaxStrLen == 5
MaxCols == 3

\* characters exercised by the storage normalizer
SanitizeAlphabet == {"a", "B", SP, NL, TAB, ".", "$"}

\* header spellings exercised by the validation
ValidateNames == { <<"A">>, <<SP, "a", SP>>, <<"B">>, <<"C">> }

\* header spellings exercised by the matching normalizer
NormNames ==
    { <<"a">>, <<"A">>, <<SP, "a">>, <<"a", TAB>>, <<"b">>, <<"a", "b">>,
      <<"a", SP, "b">>, <<"A", SP, SP, "b">>, <<SP, "a", SP, SP, "B", SP>>,
      <<"a", SP, "c">> }

NormInit ==
    /\ DbInit
    /\ nArgs = <<>>
    /\ nRet = <<>>
    /\ nPc = "idle"

\* column names with separators, as salary sheets spell them
SanitizeNames ==
    { <<"C", "o", "n", "v", SP, "A", "l", "l", "o", "w", "/", SP, "V", "e", "h">>,
      <<"a", "/", "b">>,
      <<"a", "\\", "b">>,
      <<"L", "T", "A", "-", "M">>,
      <<"P", ".", SP, "F", ".">>,
      <<"S", "r", ".", SP, "N", "o", ".">>,
      <<"N", "e", "t", SP, "(", "R", "s", ")">> }

\* values handed to clean_nan_values: every dict, list and scalar of at most
\* MaxNodes nodes over these scalars and keys
MaxNodes == 3

PyScalars ==
    {PyFloat("nan"), PyFloat("inf"), PyFloat("-inf"), PyFloat("1.5"),
     PyNone, PyNode("str", "nan", <<>>)}

PyKeys == <<"basic", "hra", "tax", "net", "gross">>

RECURSIVE PyValuesOfSize(_), PyListsOfSize(_)
\* the sequences of values with n nodes in all
PyListsOfSize(n) ==
    IF n = 0 THEN {<<>>}
    ELSE UNION { {<<v>> \o rest : v \in PyValuesOfSize(k), rest \in PyListsOfSize(n - k)} :
                 k \in 1..n }

\* the values with exactly n nodes
PyValuesOfSize(n) ==
    IF n = 1
    THEN PyScalars \cup {PyNode("list", "", <<>>), PyNode("dict", "", <<>>)}
    ELSE {PyNode("list", "", [i \in 1..Len(vs) |-> PyEntry("", vs[i])]) :
             vs \in PyListsOfSize(n - 1)}
         \cup {PyNode("dict", "", [i \in 1..Len(vs) |-> PyEntry(PyKeys[i], vs[i])]) :
             vs \in {l \in PyListsOfSize(n - 1) : Len(l) <= Len(PyKeys)}}

PyValues == UNION {PyValuesOfSize(n) : n \in 1..MaxNodes}

\* clean_nan_values(data)
CleanCall ==
    /\ nPc = "idle"
    /\ \E data \in PyValues :
        /\ nArgs' = <<data>>
        /\ nRet' = <<clean_nan_values(data)>>
    /\ nPc' = "cleaned"
    /\ UNCHANGED dbVars

\* clean_nan_values applied to its own result
CleanAgain ==
    /\ nPc = "cleaned"
    /\ nRet' = nRet \o <<clean_nan_values(nRet[1])>>
    /\ nPc' = "recleaned"
    /\ UNCHANGED <<nArgs, dbVars>>

\* sanitize_field_name(x)
SanitizeCall ==
    /\ nPc = "idle"
    /\ \E x \in SeqUpTo(SanitizeAlphabet, MaxStrLen) \cup SanitizeNames :
        /\ nArgs' = <<x>>
        /\ nRet' = <<sanitize_field_name(x)>>
    /\ nPc' = "sanitized"
    /\ UNCHANGED dbVars

\* sanitize_field_name applied to its own result
SanitizeAgain ==
    /\ nPc = "sanitized"
    /\ nRet' = nRet \o <<sanitize_field_name(nRet[1])>>
    /\ nPc' = "resanitized"
    /\ UNCHANGED <<nArgs, dbVars>>

\* validate_excel_columns(actual, expected)
ValidateCall ==
    /\ nPc = "idle"
    /\ \E a \in SeqUpTo(ValidateNames, MaxCols), e \in SeqUpTo(ValidateNames, MaxCols) :
        /\ nArgs' = <<a, e>>
        /\ nRet' = <<validate_excel_columns(a, e)>>
    /\ nPc' = "validated"
    /\ UNCHANGED dbVars

\* norm(x), norm(y) on two header spellings
NormCall ==
    /\ nPc = "idle"
    /\ \E x \in NormNames, y \in NormNames :
        /\ nArgs' = <<x, y>>
        /\ nRet' = <<norm(x), norm(y), validate_excel_columns(<<x>>, <<y>>)>>
    /\ nPc' = "normed"
    /\ UNCHANGED dbVars

NormNext ==
    \/ SanitizeCall \/ SanitizeAgain \/ ValidateCall \/ NormCall
    \/ CleanCall \/ CleanAgain

SpecNorm == NormInit /\ [][NormNext]_vars

(***************************************************************************)
(* The formula pipeline on its own: a template sheet goes through          *)
(* extract_formulas_from_excel and the extracted map through the workbook  *)
(* generator; the generator is also called on maps a client stored.        *)
(***************************************************************************)
MaxRecords == 2

\* formula texts found in template sheets
FormulaTexts ==
    { <<"=", "A", "4", "+", "B", "4">>,
      <<"=", "A", "5", "+", "B", "5">>,
      <<"=", "B", "5", "+", "C", "1", "5">>,
      <<"=", "B", "5", "*", "0", ".", "5">>,
      <<"=", "A", "5", "+", "B", "6">>,
      <<"=", "S", "U", "M", "(", "A", "5", ":", "B", "5", ")">>,
      <<"=", "B", "3", "+", "3">>,
      <<"=", "B", "2", "*", "1", "2">> }

LiteralRow == <<Str(E_dot), Num(100), Num(100)>>

FormulaRow(f) == <<Str(E_dot), Num(100), Formula(f, 100)>>

\* two formulas one below the other in the last column, at rows 4 and 5 or
\* at rows 4 and 6
TwoFormulaSheets ==
    { TitleRows \o <<HeaderWithGross, FormulaRow(f[1])>>
        \o [i \in 1..k |-> LiteralRow] \o <<FormulaRow(f[2])>> :
        k \in 0..1,
        f \in { << <<"=", "A", "4", "+", "B", "4">>, <<"=", "B", "5", "*", "0", ".", "5">> >>,
                << <<"=", "B", "5", "*", "0", ".", "5">>, <<"=", "A", "4", "+", "B", "4">> >> } }

\* the only formula in the fifth or in the sixth row below the header
DeepFormulaSheets ==
    { <<HeaderWithGross>> \o [i \in 1..k |-> LiteralRow]
        \o <<FormulaRow(<<"=", "B", "2", "*", "1", "2">>)>> : k \in 4..5 }

\* header rows of sheets that hold no formula cell
InferHeaderNames ==
    { <<N_Email, N_Basic_Pay, N_Tax, N_Gross_Amount, N_Total_Deduction, N_Net_Amount>>,
      <<N_Email, N_Basic_Pay, N_Tax, N_Gross_Amount, N_Total_Deduction, N_Net_Amt>>,
      <<N_Email, N_Basic_Pay, N_Tax, N_Gross_Amount, N_Total_Ded, N_Net_Amt>>,
      <<N_Email, N_Basic_Pay, N_Gross_Amount, N_Net_Amt, N_Payable>> }

\* a header row and one row of literals below it, with or without title rows
InferSheets ==
    { [i \in 1..t |-> [j \in 1..Len(names) |-> IF i = 1 /\ j = 1 THEN Str(N_Pay) ELSE Null]]
        \o << [j \in 1..Len(names) |-> Str(names[j])],
              [j \in 1..Len(names) |-> IF j = 1 THEN Str(E_dot) ELSE Num(100)] >> :
        t \in {0, 2}, names \in InferHeaderNames }

\* title rows, the header, literal rows, then one row with a formula in the
\* last column
FormulaSheets ==
    { SubSeq(TitleRows, 1, t) \o <<HeaderWithGross>>
        \o [i \in 1..k |-> LiteralRow]
        \o << <<Str(E_dot), Num(100), Formula(f, 100)>> >> :
        t \in 0..2, k \in 0..1, f \in FormulaTexts }
    \cup { TitleRows \o <<HeaderWithGross, LiteralRow>> }
    \cup TwoFormulaSheets \cup DeepFormulaSheets \cup InferSheets

BlankRecord == <<Entry(N_Email, Str(E_dot))>>

\* column lists and formula maps handed to the generator
GenColumnLists ==
    { <<N_Email, N_Basic_Pay, N_Gross_Amount>>,
      <<N_Email, N_Gross_Amount, lower(N_Gross_Amount)>>,
      <<N_Basic_Pay, N_Email>> }

T_B == <<"=", "B">> \o S_row_tpl
T_AB == <<"=", "A">> \o S_row_tpl \o <<"+", "B">> \o S_row_tpl

GenFormulaMaps ==
    { <<>>,
      <<Entry(N_Gross_Amount, T_B)>>,
      <<Entry(lower(N_Gross_Amount), T_AB)>>,
      <<Entry(N_Gross_Amount, T_AB), Entry(N_Basic_Pay, T_B)>>,
      <<Entry(N_Gross_Amount, T_B), Entry(lower(N_Gross_Amount), T_AB)>> }

GenRecords ==
    { BlankRecord,
      <<Entry(N_Email, Str(E_dot)), Entry(N_Basic_Pay, Num(100)),
        Entry(N_Gross_Amount, Num(100))>>,
      <<Entry(S_email, Str(E_dot)), Entry(sanitize_field_name(N_Basic_Pay), Num(100))>> }

SheetInit == NormInit

\* extract_formulas_from_excel(sheet)
ExtractFormulasCall ==
    /\ nPc = "idle"
    /\ \E sheet \in FormulaSheets :
        /\ nArgs' = <<sheet>>
        /\ nRet' = <<extract_formulas_from_excel(sheet)>>
    /\ nPc' = "extracted"
    /\ UNCHANGED dbVars

\* the workbook generated from the columns and the formulas extracted from
\* the sheet, for n records
GenerateFromExtracted ==
    /\ nPc = "extracted"
    /\ nRet[1].ok
    /\ \E n \in 1..MaxRecords :
        nRet' = nRet \o << create_excel_from_employees_with_formulas(
                              [i \in 1..n |-> BlankRecord],
                              extract_columns_from_excel(nArgs[1]).columns,
                              nRet[1].formulas) >>
    /\ nPc' = "generated"
    /\ UNCHANGED <<nArgs, dbVars>>

\* create_excel_from_employees_with_formulas(employees, columns, formula_mapping)
GenerateCall ==
    /\ nPc = "idle"
    /\ \E emps \in SeqUpTo(GenRecords, MaxRecords),
          columns \in GenColumnLists, formula_mapping \in GenFormulaMaps :
        /\ nArgs' = <<emps, columns, formula_mapping>>
        /\ nRet' = <<create_excel_from_employees_with_formulas(
                        emps, columns, formula_mapping)>>
    /\ nPc' = "workbook"
    /\ UNCHANGED dbVars

\* rows of sheets handed to the header locator
MaxRows == 3


LocatorRows ==
    { <<Str(N_EMP_ID), Str(N_Email), Str(N_Basic_Pay), Null>>,
      <<Str(N_EMP_ID), Str(N_Email), Str(N_Basic_Pay), Str(N_HRA)>>,
      <<Str(<<"i", "d">>), Str(S_unnamed), Str(S_unnamed), Null>>,
      <<Str(V_E1), Str(E_dot), Num(100), Null>>,
      <<Null, Null, Null, Null>>,
      <<Str(N_Email), Null, Str(N_Net_Pay_sp), Str(N_Tax)>>,
      <<Str(N_Email), Str(N_Email), Str(N_Tax), Null>> }

BlankRows(n) == [i \in 1..n |-> <<Null, Null, Null, Null>>]

\* short sheets of every make-up ending in a row with a cell in it, and
\* sheets whose keyword rows stand at the end of the previewed rows and
\* after them
LocatorSheets ==
    {sheet \in SeqUpTo(LocatorRows, MaxRows) :
        /\ sheet # <<>>
        /\ sheet[Len(sheet)] # <<Null, Null, Null, Null>>}
    \cup { BlankRows(PreviewRows)
             \o << <<Str(N_EMP_ID), Str(N_Email), Str(N_Basic_Pay), Null>> >>,
           BlankRows(PreviewRows - 1)
             \o << <<Str(N_EMP_ID), Str(N_Email), Str(N_Basic_Pay), Null>>,
                   <<Str(N_EMP_ID), Str(N_Email), Str(N_Basic_Pay), Str(N_HRA)>> >> }

\* extract_columns_from_excel(sheet)
LocateCall ==
    /\ nPc = "idle"
    /\ \E sheet \in LocatorSheets :
        /\ nArgs' = <<sheet>>
        /\ nRet' = <<extract_columns_from_excel(sheet)>>
    /\ nPc' = "located"
    /\ UNCHANGED dbVars

\* workbooks handed to both header searches
HeaderSearchSheets == FormulaSheets \cup ImportSheets

\* extract_columns_from_excel(sheet) and the header search of
\* import_salary_sheet_with_formulas on the same workbook
LocateBothCall ==
    /\ nPc = "idle"
    /\ \E sheet \in HeaderSearchSheets :
        /\ nArgs' = <<sheet>>
        /\ nRet' = <<extract_columns_from_excel(sheet), ImportHeaderRow(sheet)>>
    /\ nPc' = "both_located"
    /\ UNCHANGED dbVars

SheetNext ==
    \/ ExtractFormulasCall
    \/ GenerateFromExtracted
    \/ GenerateCall
    \/ LocateCall
    \/ LocateBothCall

SpecSheet == SheetInit /\ [][SheetNext]_vars

(***************************************************************************)
(* Properties of the normalizers and of the validation                     *)
(***************************************************************************)

\* s without its leading and trailing whitespace, by position
Core(s) ==
    LET solid == {i \in 1..Len(s) : s[i] \notin Whitespace}
    IN  IF solid = {} THEN <<>> ELSE SubSeq(s, SetMin(solid), SetMax(solid))

\* equal up to letter case
CaselessEqual(x, y) ==
    /\ Len(x) = Len(y)
    /\ \A i \in 1..Len(x) : lowerChar(x[i]) = lowerChar(y[i])

\* equal after trimming, up to letter case
TrimmedCaselessEqual(x, y) == CaselessEqual(Core(x), Core(y))

\* the whitespace-separated words of s, lower-cased
RECURSIVE Words(_)
Words(s) ==
    LET t == lstrip(s)
        solidLen == IF \E i \in 1..Len(t) : t[i] \in Whitespace
                    THEN SetMin({i \in 1..Len(t) : t[i] \in Whitespace}) - 1
                    ELSE Len(t)
    IN  IF t = <<>> THEN <<>>
        ELSE <<lower(SubSeq(t, 1, solidLen))>> \o Words(SubSeq(t, solidLen + 1, Len(t)))

\* two headers that differ only in case, outer whitespace and runs of inner whitespace
SameUpToCaseAndWhitespace(x, y) == Words(x) = Words(y)

\* C7: validate_excel_columns(actual, expected) is true exactly when every
\* actual name equals some expected name after trimming and up to case, and
\* every expected name equals some actual name in the same sense; an extra or
\* a missing column makes it false.
C7_SetEqualityValidation ==
    nPc = "validated" =>
        (nRet[1] <=>
            /\ \A i \in 1..Len(nArgs[1]) : \E j \in 1..Len(nArgs[2]) :
                    TrimmedCaselessEqual(nArgs[1][i], nArgs[2][j])
            /\ \A j \in 1..Len(nArgs[2]) : \E i \in 1..Len(nArgs[1]) :
                    TrimmedCaselessEqual(nArgs[1][i], nArgs[2][j]))

\* expected ["A","B"] against actual ["A","B","C"] has been validated and refused
C7_Witness ==
    /\ nPc = "validated"
    /\ nArgs = << << <<"A">>, <<"B">>, <<"C">> >>, << <<"A">>, <<"B">> >> >>
    /\ nRet[1] = FALSE

\* C9: two headers that differ only in letter case, leading/trailing
\* whitespace and runs of internal whitespace get the same matching key and
\* validate as the same column.
C9_MatchingNormalizerCollapsesWhitespace ==
    (nPc = "normed" /\ SameUpToCaseAndWhitespace(nArgs[1], nArgs[2])) =>
        (nRet[1] = nRet[2] /\ nRet[3] = TRUE)

\* C10: sanitize_field_name applied to its own result returns that result.
C10_SanitizeIdempotent ==
    nPc = "resanitized" => nRet[2] = nRet[1]

\* "a   B" (a run of three spaces) has been sanitized twice
C10_Witness ==
    /\ nPc = "resanitized"
    /\ nArgs[1] = <<"a", SP, SP, SP, "B">>
    /\ nRet[1] = <<"a", "_", "_", "b">>

(***************************************************************************)
(* Properties of the formula pipeline                                      *)
(***************************************************************************)
DigitChars == ToSet(Digits)
LetterChars == ToSet(UpperChars) \cup ToSet(LowerChars)

\* the last position of the digit run of f that starts at i
RunEnd(f, i) ==
    SetMax({j \in i..Len(f) : \A m \in i..j : f[m] \in DigitChars})

\* f with the row number of every cell reference to row r replaced by the
\* number of row r2: a digit run is the row of a reference when a column
\* letter (or the "$" of an absolute row) stands before it; any other digit
\* run is a numeric literal or part of one
RECURSIVE RetargetFrom(_, _, _, _)
RetargetFrom(f, i, r, r2) ==
    IF i > Len(f) THEN <<>>
    ELSE IF f[i] \notin DigitChars THEN <<f[i]>> \o RetargetFrom(f, i + 1, r, r2)
    ELSE LET j == RunEnd(f, i)
             run == SubSeq(f, i, j)
             isRef == i > 1 /\ f[i - 1] \in LetterChars \cup {"$"}
         IN  (IF isRef /\ run = str(r) THEN str(r2) ELSE run)
                 \o RetargetFrom(f, j + 1, r, r2)

Retarget(f, r, r2) == RetargetFrom(f, 1, r, r2)

\* the worksheet rows of sheet below the 0-based header row h that hold a
\* formula in column j
FormulaRows(sheet, h, j) ==
    {r \in (h + 2)..Len(sheet) : IsFormulaCell(sheet[r][j])}

\* C1: for every formula that extract_formulas_from_excel found at data row
\* r, the template instantiated at a row r2 of the generated workbook is the
\* original formula with exactly its references to row r re-targeted to r2;
\* every other reference and every numeric literal is unchanged.
C1_TemplateRoundTrip ==
    nPc = "generated" =>
        LET sheet == nArgs[1]
            h == extract_columns_from_excel(sheet).header_row_index
            book == nRet[2]
        IN  \A j \in 1..Len(book.header) :
                FormulaRows(sheet, h, j) # {} =>
                    LET r == SetMin(FormulaRows(sheet, h, j))
                    IN  \A i \in 1..Len(book.rows) :
                            book.rows[i][j].s
                                = Retarget(sheet[r][j].s, r, FirstDataRow + i - 1)

\* a formula at row 5 that refers to row 5 only has made the round trip
C1_Witness ==
    /\ nPc = "generated"
    /\ Len(nArgs[1]) = 5
    /\ nArgs[1][5][3] = Formula(<<"=", "A", "5", "+", "B", "5">>, 100)
    /\ Len(nRet[2].rows) = 2
    /\ nRet[2].rows[2][3].s = <<"=", "A", "5", "+", "B", "5">>
    /\ nRet[2].rows[1][3].s = <<"=", "A", "4", "+", "B", "4">>

\* C2: for every record and every column that has an entry in the formula
\* map, the cell of the record's worksheet row and that column holds the
\* template with every {row} replaced by the number of that row, as formula
\* text.
C2_FormulaCellsHoldInstantiatedTemplate ==
    nPc = "workbook" =>
        LET columns == nArgs[2]
            formula_mapping == nArgs[3]
            book == nRet[1]
        IN  \A i \in 1..Len(book.rows), j \in 1..Len(columns) :
                DictHas(formula_mapping, columns[j]) =>
                    /\ book.rows[i][j].t = "f"
                    /\ book.rows[i][j].s
                         = replace(DictGet(formula_mapping, columns[j]),
                                   S_row_tpl, str(FirstDataRow + i - 1))

\* a workbook of two records whose third column has the only formula entry
C2_Witness ==
    /\ nPc = "workbook"
    /\ nArgs[2] = <<N_Email, N_Basic_Pay, N_Gross_Amount>>
    /\ nArgs[3] = <<Entry(N_Gross_Amount, T_B)>>
    /\ Len(nRet[1].rows) = 2
    /\ nRet[1].rows[2][3] = Formula(<<"=", "B", "5">>, 0)

(***************************************************************************)
(* Properties of the services                                              *)
(***************************************************************************)

\* the keys of record d that the storage normalizer maps to the key of col
KeysFor(d, col) ==
    {i \in 1..Len(d) : sanitize_field_name(d[i].k) = sanitize_field_name(col)}

\* C3: in an exported workbook a cell outside the formula columns holds the
\* record's value under a key that normalizes to the column's key, and null
\* only when the record has no such key; so what an upload stored under
\* "basic_pay" is written under "Basic Pay".
C3_ExportWritesStoredValues ==
    (req.op = "export_employees" /\ resp.status = 200) =>
        LET emps == OfCompany(employees, req.cid)
            book == resp.body
        IN  \A i \in 1..Len(book.rows), j \in 1..Len(book.header) :
                book.rows[i][j].t # "f" =>
                    IF KeysFor(emps[i], book.header[j]) = {}
                    THEN book.rows[i][j] = Null
                    ELSE \E m \in KeysFor(emps[i], book.header[j]) :
                            book.rows[i][j] = emps[i][m].v

\* a record added under the column names themselves has been exported
C3_Witness ==
    /\ req.op = "export_employees"
    /\ resp.status = 200
    /\ resp.body.rows = << <<Str(V_E1), Str(E_dot), Num(100)>> >>

\* the records an upload inserted or updated, by position
Touched == {i \in 1..Len(employees) : i > Len(before) \/ employees[i] # before[i]}

\* C4: every record an upload inserts or updates has, for every column of
\* the uploaded header that is not an attendance column, the storage key of
\* that column (holding null when the row has no value); none is absent.
C4_ReconciliationCompleteness ==
    (req.op = "upload_employees" /\ resp.status = 200) =>
        LET columns == extract_columns_from_excel(req.arg).columns
        IN  \A i \in Touched, j \in 1..Len(columns) :
                sanitize_field_name(columns[j]) \notin ToSet(attendance_columns_normalized)
                    => DictHas(employees[i], sanitize_field_name(columns[j]))

\* a row without a value for "Basic Pay" has been stored with the key
C4_Witness ==
    /\ req.op = "upload_employees"
    /\ resp.status = 200
    /\ Touched = {1}
    /\ DictHas(employees[1], sanitize_field_name(N_Basic_Pay))
    /\ DictGet(employees[1], sanitize_field_name(N_Basic_Pay)) = Null

\* the populated email values of the data rows of an uploaded sheet
UploadedEmails(sheet) ==
    LET info == extract_columns_from_excel(sheet)
        rows == FrameRows(sheet, info.header_row_index)
        at == SetMin({j \in 1..Len(info.columns) :
                        contains(lower(info.columns[j]), S_email)})
    IN  [i \in 1..Len(rows) |-> rows[i][at]]

\* the records of emps that belong to cid and carry the email e up to case
Carrying(emps, cid, e) ==
    {i \in 1..Len(emps) :
        /\ DictHas(emps[i], S_company_id)
        /\ DictGet(emps[i], S_company_id) = Str(cid)
        /\ DictHas(emps[i], S_email)
        /\ DictGet(emps[i], S_email).t = "str"
        /\ CaselessEqual(DictGet(emps[i], S_email).s, e)}

\* C5: when a row with email e is uploaded to a company that already holds a
\* record uploaded with e (up to letter case), the upload counts the row as
\* updated and inserts nothing, one record of the company carries e, and no
\* record with another email is changed.
C5_DeduplicationByEmail ==
    (/\ req.op = "upload_employees"
     /\ resp.status = 200
     /\ Len(UploadedEmails(req.arg)) = 1
     /\ UploadedEmails(req.arg)[1].t = "str"
     /\ Carrying(before, req.cid, UploadedEmails(req.arg)[1].s) # {}) =>
        LET e == UploadedEmails(req.arg)[1].s
        IN  /\ resp.body.inserted = 0
            /\ resp.body.updated = 1
            /\ Cardinality(Carrying(employees, req.cid, e)) = 1
            /\ Touched \subseteq Carrying(before, req.cid, e)

\* "A.B" has been uploaded over a record uploaded as "a.b"
C5_Witness ==
    /\ req.op = "upload_employees"
    /\ resp.status = 200
    /\ UploadedEmails(req.arg) = <<Str(E_DOT)>>
    /\ Carrying(before, req.cid, E_dot) = {1}
    /\ resp.body.updated = 1
    /\ Len(employees) = 1

\* C6: after a schema update the company's salary_sheet_columns is the
\* sequence of column names that was supplied or extracted, in that order.
C6_ColumnsAreASequenceOfNames ==
    (req.op \in {"update_salary_format", "extract_and_update_salary_format"}
     /\ resp.status = 200) =>
        /\ companies[req.cid].salary_sheet_columns.kind = "list"
        /\ companies[req.cid].salary_sheet_columns.columns
             = IF req.op = "update_salary_format" THEN req.arg
               ELSE extract_columns_from_excel(req.arg).columns

\* update_salary_format has stored the list it was given
C6_Witness ==
    /\ req.op = "update_salary_format"
    /\ resp.status = 200
    /\ companies[req.cid].salary_sheet_columns = ColsList(req.arg)

\* C8: add_employee accepts the supplied fields exactly when every expected
\* column equals some supplied key after trimming and up to case; extra keys
\* never cause rejection, and a rejection names the first missing column.
C8_SubsetValidation ==
    (/\ req.op = "add_employee"
     /\ Exists(req.cid)
     /\ companies[req.cid].salary_sheet_columns.kind = "list") =>
        LET expected == companies[req.cid].salary_sheet_columns.columns
            missing == {j \in 1..Len(expected) :
                           ~\E i \in 1..Len(req.arg) :
                               TrimmedCaselessEqual(expected[j], req.arg[i].k)}
        IN  /\ resp.status = 200 <=> missing = {}
            /\ resp.status # 200 =>
                   /\ resp.status = 400
                   /\ missing # {}
                   /\ resp.body = expected[SetMin(missing)]

\* a record with an extra key has been accepted
C8_Witness ==
    /\ req.op = "add_employee"
    /\ resp.status = 200
    /\ Len(req.arg) = 4
    /\ DictHas(req.arg, N_Name)

(***************************************************************************)
(* Properties of the storage normalizer's output                           *)
(***************************************************************************)
StorageKeyChars == ToSet(LowerChars) \cup DigitChars \cup {"_"}

\* C11: the storage normalizer's output has only characters of [a-z0-9_]
\* and no two consecutive underscores: a separator "/", "\" or "-" becomes
\* an underscore, a run of underscores is collapsed, any other character
\* is dropped.
C11_StorageKeyCharset ==
    nPc = "sanitized" =>
        /\ \A i \in 1..Len(nRet[1]) : nRet[1][i] \in StorageKeyChars
        /\ \A i \in 1..(Len(nRet[1]) - 1) :
               ~(nRet[1][i] = "_" /\ nRet[1][i + 1] = "_")

\* "P. F." has been normalized to "p_f"
C11_Witness ==
    /\ nPc = "sanitized"
    /\ nArgs[1] = <<"P", ".", SP, "F", ".">>
    /\ nRet[1] = <<"p", "_", "f">>

(***************************************************************************)
(* Properties of the header locator                                        *)
(***************************************************************************)

\* the 0-based indices, among the first ten rows, of the rows with at least
\* 3 keyword cells and at least half of their cells non-empty
Qualifying(sheet) ==
    {i \in 0..9 :
        /\ i < Len(sheet)
        /\ keyword_matches(sheet[i + 1]) >= 3
        /\ 2 * non_empty_cells(sheet[i + 1]) >= Len(sheet[i + 1])}

\* C12: when rows qualify, the header row returned is a qualifying row with
\* the maximum keyword_matches, and the lowest-indexed one among those.
C12_HeaderIsFirstBestCandidate ==
    (nPc = "located" /\ Qualifying(nArgs[1]) # {}) =>
        LET sheet == nArgs[1]
            h == nRet[1].header_row_index
        IN  /\ nRet[1].ok
            /\ h \in Qualifying(sheet)
            /\ \A k \in Qualifying(sheet) :
                   /\ keyword_matches(sheet[k + 1]) <= keyword_matches(sheet[h + 1])
                   /\ keyword_matches(sheet[k + 1]) = keyword_matches(sheet[h + 1])
                          => h <= k

\* two rows with three keyword cells each: the earlier one is the header
C12_Witness ==
    /\ nPc = "located"
    /\ Len(nArgs[1]) = 3
    /\ Qualifying(nArgs[1]) = {1, 2}
    /\ keyword_matches(nArgs[1][2]) = keyword_matches(nArgs[1][3])
    /\ nRet[1].header_row_index = 1

C14_ColumnCleaning ==
    (nPc = "located" /\ nRet[1].ok) =>
        LET row == nArgs[1][nRet[1].header_row_index + 1]
            columns == nRet[1].columns
        IN  /\ Len(columns) = Len(row)
            /\ \A p \in 1..Len(row) :
                   columns[p] = IF row[p].t = "null"
                                THEN S_Column_ \o str(p)
                                ELSE Core(PyStr(row[p]))

\* a header with a blank cell and a padded cell has been cleaned
C14_Witness ==
    /\ nPc = "located"
    /\ nArgs[1] = << <<Str(N_Email), Null, Str(N_Net_Pay_sp), Str(N_Tax)>> >>
    /\ nRet[1].columns
         = <<N_Email, S_Column_ \o <<"2">>, <<"N", "e", "t", SP, "P", "a", "y">>, N_Tax>>

(***************************************************************************)
(* Properties of clean_nan_values                                          *)
(***************************************************************************)

\* y is x with null in the place of every NaN and infinite float, and with
\* nothing else changed: the same dicts with the same keys in the same
\* order, the same lists of the same lengths, the same other scalars
RECURSIVE IsCleaned(_, _)
IsCleaned(y, x) ==
    IF x.t \in {"dict", "list"}
    THEN /\ y.t = x.t
         /\ Len(y.kids) = Len(x.kids)
         /\ \A i \in 1..Len(x.kids) :
                /\ y.kids[i].k = x.kids[i].k
                /\ IsCleaned(y.kids[i].v, x.kids[i].v)
    ELSE IF x.t = "float" /\ x.x \in {"nan", "inf", "-inf"}
    THEN y = PyNone
    ELSE y = x

\* C15: clean_nan_values returns a value of the argument's shape and keys
\* with null for every NaN, +Infinity and -Infinity float and every other
\* value unchanged, at any nesting depth; applied to its own result it
\* returns that result.
C15_NanInfElimination ==
    /\ nPc \in {"cleaned", "recleaned"} => IsCleaned(nRet[1], nArgs[1])
    /\ nPc = "recleaned" => nRet[2] = nRet[1]

\* {"basic": [nan]} has been cleaned twice
C15_Witness ==
    /\ nPc = "recleaned"
    /\ nArgs[1] = PyNode("dict", "",
                    <<PyEntry("basic", PyNode("list", "", <<PyEntry("", PyFloat("nan"))>>))>>)
    /\ nRet[1] = PyNode("dict", "",
                    <<PyEntry("basic", PyNode("list", "", <<PyEntry("", PyNone)>>))>>)

(***************************************************************************)
(* Properties of the failures the services answer with                     *)
(***************************************************************************)

\* C16: a column mismatch and a missing email column in upload_employees
\* are answered with status 400, and a get_employee for an employee the
\* company does not hold is answered with status 404.
C16_StatusPreservation ==
    /\ (/\ req.op = "upload_employees"
        /\ resp.detail = "Upload failed"
        /\ resp.body.error \in {"mismatch", "no_email"}) => resp.status = 400
    /\ (/\ req.op = "get_employee"
        /\ ~\E i \in 1..Len(employees) :
               /\ DictGet(employees[i], S_id) = Num(req.arg)
               /\ DictHas(employees[i], S_company_id)
               /\ DictGet(employees[i], S_company_id) = Str(req.cid))
            => resp.status = 404

\* an upload whose header does not match the company's columns has failed
C16_Witness ==
    /\ req.op = "upload_employees"
    /\ resp.detail = "Upload failed"
    /\ resp.body.error = "mismatch"
    /\ resp.status = 500

\* C17: an upload of a sheet with no column whose name contains "email"
\* leaves the employee collection as it was before the call.
C17_NoEmailColumnNoWrite ==
    req.op = "upload_employees" =>
        \A columns \in {extract_columns_from_excel(req.arg).columns} :
            (~\E j \in 1..Len(columns) : contains(lower(columns[j]), S_email))
                => employees = before

\* a sheet that matches the company's columns, with data rows and without
\* an email column, has been refused
C17_Witness ==
    /\ req.op = "upload_employees"
    /\ resp.detail = "Upload failed"
    /\ resp.body.error = "no_email"
    /\ FrameRows(req.arg, extract_columns_from_excel(req.arg).header_row_index) # <<>>
    /\ employees = before

\* the upload got as far as its row loop
ReachedRows ==
    /\ req.op = "upload_employees"
    /\ \/ resp.detail = "Employee upload completed"
       \/ resp.detail = "Upload failed" /\ resp.body.error = "row"

\* C18: an upload that reaches its rows answers with the counts whatever
\* happens on a row, and a row that fails does not keep the other rows
\* from being processed: every row with an email the store can look up is
\* held by the company afterwards.
C18_RowFailuresDoNotAbort ==
    ReachedRows =>
        /\ resp.status = 200
        /\ \A i \in 1..Len(UploadedEmails(req.arg)) :
               LET e == UploadedEmails(req.arg)[i]
               IN  (e.t = "str" /\ RegexCompiles(e.s))
                       => Carrying(employees, req.cid, e.s) # {}

\* the first row's lookup has raised and the second row, with an email of
\* its own, has not been stored
C18_Witness ==
    /\ ReachedRows
    /\ resp.status = 500
    /\ Len(UploadedEmails(req.arg)) = 2
    /\ UploadedEmails(req.arg)[1] = Str(E_paren)
    /\ UploadedEmails(req.arg)[2] = Str(E_dot)
    /\ Carrying(employees, req.cid, E_dot) = {}

(***************************************************************************)
(* Properties of what the requests leave alone                             *)
(***************************************************************************)

\* C19: a test_extract_columns or upload_employees call leaves every
\* company as it was, and a company's salary_sheet_columns or
\* salary_sheet_formulas change only in a call of update_salary_format,
\* extract_and_update_salary_format or import_salary_sheet_with_formulas.
C19_ReadOnlyExtractionKeepsSchema ==
    [][/\ req'.op \in {"test_extract_columns", "upload_employees"}
            => companies' = companies
       /\ \A c \in CompanyIds :
            (/\ companies[c].exists
             /\ \/ companies'[c].salary_sheet_columns # companies[c].salary_sheet_columns
                \/ companies'[c].salary_sheet_formulas # companies[c].salary_sheet_formulas)
                => req'.op \in {"update_salary_format",
                                "extract_and_update_salary_format",
                                "import_salary_sheet_with_formulas"}]_vars

\* an upload has stored a record and the company's columns are the list it
\* was created with, though the sheet spells them otherwise
C19_Witness ==
    /\ req.op = "upload_employees"
    /\ resp.status = 200
    /\ Len(employees) > Len(before)
    /\ extract_columns_from_excel(req.arg).columns = <<N_emp_id, N_EMAIL, N_Basic_Pay>>
    /\ companies[req.cid].salary_sheet_columns = ColsList(<<N_EMP_ID, N_Email, N_Basic_Pay>>)
    /\ companies[req.cid].salary_sheet_formulas = <<>>

(***************************************************************************)
(* Properties of the rows of the generated workbook                        *)
(***************************************************************************)
MonetaryTerms ==
    << <<"p", "a", "y">>,
       <<"a", "m", "o", "u", "n", "t">>,
       <<"b", "a", "s", "i", "c">>,
       <<"h", "r", "a">>,
       <<"a", "l", "l", "o", "w", "a", "n", "c", "e">>,
       <<"r", "e", "i", "m", "b", "u", "r", "s", "e", "m", "e", "n", "t">> >>

\* "=SUM(<letter><first>:<letter><last>)"
SumFormula(letter, first, last) ==
    <<"=", "S", "U", "M", "(">> \o letter \o str(first) \o <<":">>
        \o letter \o str(last) \o <<")">>

\* C20: the rows of the workbook from the first data row on are the data
\* rows followed by one aggregate row; in it every column whose normalized
\* name contains a monetary term holds the SUM formula over that column's
\* data rows, and every other column is empty.
C20_AggregateRowOfSums ==
    nPc = "workbook" =>
        LET emps == nArgs[1]
            columns == nArgs[2]
            book == nRet[1]
            last == FirstDataRow + Len(emps) - 1
        IN  /\ Len(book.rows) = Len(emps) + 1
            /\ \A j \in 1..Len(columns) :
                   book.rows[Len(emps) + 1][j]
                     = IF ContainsAny(lower(Core(columns[j])), MonetaryTerms)
                       THEN Formula(SumFormula(get_column_letter(j), FirstDataRow, last), 0)
                       ELSE Null

\* a workbook of two records with a "Basic Pay" column ends at its second
\* data row
C20_Witness ==
    /\ nPc = "workbook"
    /\ Len(nArgs[1]) = 2
    /\ \E j \in 1..Len(nArgs[2]) : nArgs[2][j] = N_Basic_Pay
    /\ Len(nRet[1].rows) = 2

\* C21: the generator called with no records returns the workbook with the
\* header row listing the columns in their order and with no data row, so
\* with no formula cell, whatever the formula map holds.
C21_EmptyRecordsGiveHeaderOnly ==
    (nPc = "workbook" /\ nArgs[1] = <<>>) =>
        /\ nRet[1].header = nArgs[2]
        /\ nRet[1].rows = <<>>

\* no records, three columns and a formula map with an entry
C21_Witness ==
    /\ nPc = "workbook"
    /\ nArgs[1] = <<>>
    /\ nArgs[3] = <<Entry(N_Gross_Amount, T_B)>>
    /\ nRet[1].header = <<N_Email, N_Basic_Pay, N_Gross_Amount>>

(***************************************************************************)
(* Properties of the formula scan                                          *)
(***************************************************************************)

\* the worksheet rows among the five below the 0-based header row h that
\* hold a formula in column j
ScannedFormulaRows(sheet, h, j) ==
    {r \in FormulaRows(sheet, h, j) : r <= h + 6}

\* C22: when one of the five rows below the header holds a formula, the
\* template returned for a column is the one made from the lowest of those
\* rows with a formula in that column (a formula further down the column
\* never replaces it) and a column with no formula in those rows gets none;
\* the rows after the fifth have no say in what is returned.
C22_FirstFoundWins ==
    (nPc = "extracted" /\ nRet[1].ok) =>
        LET sheet == nArgs[1]
            h == extract_columns_from_excel(sheet).header_row_index
            header == sheet[h + 1]
            formulas == nRet[1].formulas
        IN  /\ (\E j \in 1..Len(header) : ScannedFormulaRows(sheet, h, j) # {}) =>
                  \A j \in 1..Len(header) :
                      LET name == Core(PyStr(header[j]))
                          rows == ScannedFormulaRows(sheet, h, j)
                      IN  IF rows = {}
                          THEN ~DictHas(formulas, name)
                          ELSE /\ DictHas(formulas, name)
                               /\ DictGet(formulas, name)
                                    = replace(sheet[SetMin(rows)][j].s,
                                              str(SetMin(rows)), S_row_tpl)
            /\ Len(sheet) > h + 6 =>
                  formulas = extract_formulas_from_excel(SubSeq(sheet, 1, h + 6)).formulas

\* formulas at rows 4 and 6 of one column: the template is the one of row 4
C22_Witness ==
    /\ nPc = "extracted"
    /\ Len(nArgs[1]) = 6
    /\ nArgs[1][4][3].s = <<"=", "B", "5", "*", "0", ".", "5">>
    /\ nArgs[1][6][3].s = <<"=", "A", "4", "+", "B", "4">>
    /\ nRet[1].formulas = <<Entry(N_Gross_Amount, <<"=", "B", "5", "*", "0", ".", "5">>)>>

(***************************************************************************)
(* The formulas synthesized when the scan finds none                       *)
(***************************************************************************)
\* the positions of the columns whose lower-cased name contains a and b
ColumnsWithBoth(columns, a, b) ==
    {i \in 1..Len(columns) :
        contains(lower(columns[i]), a) /\ contains(lower(columns[i]), b)}

\* C23: when the scan captures no formula and the columns hold a
\* gross-amount column and a total-deduction column, every other column whose
\* name contains "net" and "amount" gets the template
\* "=<gross letter>{row}-<total-deduction letter>{row}".
C23_NetRoleTemplate ==
    (nPc = "extracted" /\ nRet[1].ok) =>
        \A info \in {extract_columns_from_excel(nArgs[1])} :
            LET columns == info.columns
                gross == ColumnsWithBoth(columns, S_gross, S_amount)
                ded == ColumnsWithBoth(columns, S_total, S_ded)
                net == ColumnsWithBoth(columns, S_net, S_amount) \ (gross \cup ded)
            IN  (/\ ScannedFormulas(nArgs[1], info.header_row_index) = <<>>
                 /\ gross # {} /\ ded # {}) =>
                    \A i \in net :
                        /\ DictHas(nRet[1].formulas, columns[i])
                        /\ DictGet(nRet[1].formulas, columns[i])
                             = <<"=">> \o get_column_letter(SetMin(gross)) \o S_row_tpl
                                 \o <<"-">> \o get_column_letter(SetMin(ded)) \o S_row_tpl
\* a sheet with the columns "Gross Amount", "Total Deduction" and
\* "Net Amount" and no formula cell: nothing is synthesized for "Net Amount"
C23_Witness ==
    /\ nPc = "extracted" /\ nRet[1].ok
    /\ Len(nArgs[1]) = 2 /\ Len(nArgs[1][1]) = 6
    /\ nArgs[1][1][4].s = N_Gross_Amount
    /\ nArgs[1][1][5].s = N_Total_Deduction
    /\ nArgs[1][1][6].s = N_Net_Amount
    /\ DictHas(nRet[1].formulas, N_Gross_Amount)
    /\ ~DictHas(nRet[1].formulas, N_Net_Amount)
\* the same sheet with the column named "Net Amt" gets the difference
C23_NetAmtTemplate ==
    /\ nPc = "extracted" /\ nRet[1].ok
    /\ Len(nArgs[1]) = 2 /\ Len(nArgs[1][1]) = 6
    /\ nArgs[1][1][5].s = N_Total_Deduction
    /\ nArgs[1][1][6].s = N_Net_Amt
    /\ DictGet(nRet[1].formulas, N_Net_Amt)
         = <<"=", "D">> \o S_row_tpl \o <<"-", "E">> \o S_row_tpl

\* the pieces of a text between '+' and '-' signs, from position i on
RECURSIVE SplitTerms(_, _, _)
SplitTerms(text, i, term) ==
    IF i > Len(text) THEN <<term>>
    ELSE IF text[i] \in {"+", "-"}
         THEN <<term>> \o SplitTerms(text, i + 1, <<>>)
         ELSE SplitTerms(text, i + 1, Append(term, text[i]))

\* C24: every synthesized formula is "=" followed by terms
\* "<column letter>{row}" joined by '+' or '-'; each term is the coordinate of
\* a header column, and none is the column the formula is assigned to.
C24_SynthesizedTermsAreOtherColumns ==
    (nPc = "extracted" /\ nRet[1].ok) =>
        \A info \in {extract_columns_from_excel(nArgs[1])} :
            ScannedFormulas(nArgs[1], info.header_row_index) = <<>> =>
                LET headers == SheetHeaders(nArgs[1], info.header_row_index + 1)
                    formulas == nRet[1].formulas
                IN  \A e \in 1..Len(formulas) :
                        LET own == {i \in 1..Len(headers) :
                                       lower(headers[i].v) = lower(formulas[e].k)}
                            others == {get_column_letter(headers[i].k) \o S_row_tpl :
                                          i \in (1..Len(headers)) \ own}
                            terms == SplitTerms(formulas[e].v, 2, <<>>)
                        IN  /\ formulas[e].v # <<>>
                            /\ Head(formulas[e].v) = "="
                            /\ \A m \in 1..Len(terms) : terms[m] \in others
\* the formula synthesized for "Total Deduction" in column E adds column E
C24_Witness ==
    /\ nPc = "extracted" /\ nRet[1].ok
    /\ Len(nArgs[1]) = 2 /\ Len(nArgs[1][1]) = 6
    /\ nArgs[1][1][3].s = N_Tax
    /\ nArgs[1][1][5].s = N_Total_Deduction
    /\ DictGet(nRet[1].formulas, N_Total_Deduction)
         = <<"=", "C">> \o S_row_tpl \o <<"+", "E">> \o S_row_tpl

(***************************************************************************)
(* What upload_employees writes                                            *)
(***************************************************************************)
\* a key that names an attendance-only column after storage normalization
IsAttendanceKey(key) == sanitize_field_name(key) \in ToSet(attendance_columns_normalized)

\* the records a completed upload inserted, and those it changed
UploadInserted == {i \in 1..Len(employees) : i > Len(before)}
UploadChanged == {i \in 1..Len(before) : employees[i] # before[i]}

\* C25: no record inserted or updated by upload_employees holds a key of an
\* attendance-only column.
C25_NoAttendanceKeyInUploadedRecords ==
    (req.op = "upload_employees" /\ resp.status = 200) =>
        \A i \in UploadInserted \cup UploadChanged :
            \A e \in 1..Len(employees[i]) : ~IsAttendanceKey(employees[i][e].k)
\* C25, amended: a record inserted by upload_employees holds no key of an
\* attendance-only column, and a record it updated holds only those the
\* record held before the upload, with their values.
C25_NoAttendanceKeyWritten ==
    (req.op = "upload_employees" /\ resp.status = 200) =>
        /\ \A i \in UploadInserted :
               \A e \in 1..Len(employees[i]) : ~IsAttendanceKey(employees[i][e].k)
        /\ \A i \in UploadChanged :
               \A e \in 1..Len(employees[i]) :
                   IsAttendanceKey(employees[i][e].k) =>
                       /\ DictHas(before[i], employees[i][e].k)
                       /\ DictGet(before[i], employees[i][e].k) = employees[i][e].v
\* a sheet with the column "No. of Days Present" uploaded, its row inserted
C25_Witness ==
    /\ req.op = "upload_employees" /\ resp.status = 200
    /\ Len(req.arg) = 4 /\ req.arg[3] = HeaderWithAttendance
    /\ resp.body.inserted = 1
    /\ UploadInserted # {}

\* the rows upload_employees iterates for the sheet of the request
UploadRows == FrameRows(req.arg, extract_columns_from_excel(req.arg).header_row_index)

\* the position of the email column of the sheet of the request
UploadEmailAt ==
    LET columns == extract_columns_from_excel(req.arg).columns
    IN  SetMin({j \in 1..Len(columns) : contains(lower(columns[j]), S_email)})

\* the rows of the request without an email value
UploadRowsWithoutEmail(rows, at) == {i \in 1..Len(rows) : ~Truthy(rows[i][at])}

\* C26: a row without an email value adds one to skipped and nothing else:
\* it is neither inserted nor updated, and the rows after it are processed.
C26_RowsWithoutEmailAreSkipped ==
    (req.op = "upload_employees" /\ resp.status = 200) =>
        \A rows \in {UploadRows}, at \in {UploadEmailAt} :
            LET without == UploadRowsWithoutEmail(rows, at)
                email_key == sanitize_field_name(
                                 extract_columns_from_excel(req.arg).columns[at])
            IN  /\ resp.body.skipped = Cardinality(without)
                /\ resp.body.inserted + resp.body.updated = Len(rows) - Cardinality(without)
                /\ Len(employees) = Len(before) + resp.body.inserted
                /\ (without = 1..Len(rows)) => employees = before
                /\ \A i \in (1..Len(rows)) \ without :
                       \E m \in 1..Len(employees) :
                           /\ DictHas(employees[m], email_key)
                           /\ DictGet(employees[m], email_key) = rows[i][at]
\* a row without an email followed by a row with one: one skipped, one
\* inserted
C26_Witness ==
    /\ req.op = "upload_employees" /\ resp.status = 200
    /\ Len(req.arg) = 5
    /\ req.arg[4][2] = Null /\ req.arg[5][2] = Str(E_dot)
    /\ resp.body.skipped = 1 /\ resp.body.inserted = 1

\* the sheet rows below the header that are not all empty and hold no cell
\* containing "total"
IteratedSheetRows(sheet, h) ==
    {r \in (h + 2)..Len(sheet) :
        /\ \E j \in 1..Len(sheet[r]) : sheet[r][j].t # "null"
        /\ ~\E j \in 1..Len(sheet[r]) : contains(lower(PdText(sheet[r][j])), S_total)}

\* C27: when upload_employees returns a result, inserted + updated + skipped
\* is the number of rows it iterated, and the stored records of the company
\* grow by exactly inserted.
C27_UploadAccounting ==
    (req.op = "upload_employees" /\ resp.status = 200) =>
        \A h \in {extract_columns_from_excel(req.arg).header_row_index} :
            /\ resp.body.inserted + resp.body.updated + resp.body.skipped
                 = Cardinality(IteratedSheetRows(req.arg, h))
            /\ Len(OfCompany(employees, req.cid))
                 = Len(OfCompany(before, req.cid)) + resp.body.inserted
            /\ Len(employees) = Len(before) + resp.body.inserted
\* a sheet with a data row, an empty row and a total row: one row counted
C27_Witness ==
    /\ req.op = "upload_employees" /\ resp.status = 200
    /\ Len(req.arg) = 6
    /\ req.arg[6][1] = Str(V_Total)
    /\ resp.body.inserted + resp.body.updated = 1
    /\ resp.body.skipped = 0

(***************************************************************************)
(* Export without a stored formula map                                     *)
(***************************************************************************)
\* C28: exporting the employees of an existing company that has an employee
\* and no stored formula map ends in a workbook, not in an error, through
\* the route as well as through the service.
C28_ExportWithDefaultFormulasSucceeds ==
    (/\ req.op \in {"api_export_employees", "export_employees"}
     /\ Exists(req.cid)
     /\ companies[req.cid].salary_sheet_formulas = <<>>
     /\ OfCompany(employees, req.cid) # <<>>) =>
        resp.status = 200
\* the route answers with a server error for a company with one employee,
\* no formula map and columns that name no calculated field
C28_Witness ==
    /\ req.op = "api_export_employees"
    /\ Exists(req.cid)
    /\ companies[req.cid].salary_sheet_formulas = <<>>
    /\ IterCols(companies[req.cid].salary_sheet_columns)
         = <<N_EMP_ID, N_Email, N_Basic_Pay>>
    /\ Len(OfCompany(employees, req.cid)) = 1
    /\ resp.status = 500
\* the service called on its own raises for a company with the columns
\* "Basic Pay" and "Gross Amount", one employee and no formula map
C28_ServiceRaisesOnGrossColumns ==
    /\ req.op = "export_employees"
    /\ Exists(req.cid)
    /\ companies[req.cid].salary_sheet_formulas = <<>>
    /\ IterCols(companies[req.cid].salary_sheet_columns)
         = <<N_Email, N_Basic_Pay, N_Gross_Amount>>
    /\ Len(OfCompany(employees, req.cid)) = 1
    /\ resp.status = 500
\* the service called on its own succeeds for a company whose columns name
\* no calculated field
C28_ServiceExportsPlainColumns ==
    /\ req.op = "export_employees"
    /\ Exists(req.cid)
    /\ companies[req.cid].salary_sheet_formulas = <<>>
    /\ IterCols(companies[req.cid].salary_sheet_columns)
         = <<N_EMP_ID, N_Email, N_Basic_Pay>>
    /\ Len(OfCompany(employees, req.cid)) = 1
    /\ resp.status = 200

(***************************************************************************)
(* Attendance records of one day                                           *)
(***************************************************************************)
\* no attendance request is under way
AllCompleted == \A w \in Workers : inflight[w].pc \in {"idle", "done"}

\* C29: once the add_attendance and bulk_add_attendance calls made have
\* completed, the attendance collection holds at most one record for a
\* company, an employee and a date.
C29_OneRecordPerDay ==
    AllCompleted =>
        \A a, b \in 1..Len(attendance) :
            (/\ attendance[a].company_id = attendance[b].company_id
             /\ attendance[a].employee_id = attendance[b].employee_id
             /\ attendance[a].date = attendance[b].date) => a = b
\* two add_attendance calls for one employee and one day have both completed
\* with an insert
C29_Witness ==
    /\ AllCompleted
    /\ \A w \in Workers : inflight[w].op = "add_attendance" /\ inflight[w].inserted = 1
    /\ Len(attendance) = 2
    /\ attendance[1].employee_id = attendance[2].employee_id
    /\ attendance[1].date = attendance[2].date
\* a call that finds the record of the day updates it and inserts nothing
C29_SecondCallUpdates ==
    /\ AllCompleted
    /\ inflight[1].op = "add_attendance" /\ inflight[1].inserted = 1
    /\ inflight[2].op = "bulk_add_attendance" /\ inflight[2].updated = 1
    /\ inflight[2].inserted = 0
    /\ Len(attendance) = 1
    /\ attendance[1].status = "absent"

(***************************************************************************)
(* The two header searches                                                 *)
(***************************************************************************)
\* C30: the header row import_salary_sheet_with_formulas chooses (1-based)
\* is the row extract_columns_from_excel chooses (0-based index + 1).
C30_HeaderSearchesAgree ==
    (nPc = "both_located" /\ nRet[1].ok) =>
        nRet[2] = nRet[1].header_row_index + 1
\* a three-column header in the first row: the one search returns row 1, the
\* other falls back to row 3
C30_Witness ==
    /\ nPc = "both_located" /\ nRet[1].ok
    /\ Len(nArgs[1]) = 2
    /\ nArgs[1][1] = HeaderWithGross
    /\ nRet[1].header_row_index = 0
    /\ nRet[2] = 3
\* a five-column header in the first row is chosen by both
C30_WideHeaderChosenByBoth ==
    /\ nPc = "both_located" /\ nRet[1].ok
    /\ Len(nArgs[1][1]) = 5
    /\ nRet[1].header_row_index = 0
    /\ nRet[2] = 1
====
